---- MODULE Spec2Model ----
(***************************************************************************)
(* Model of the table definition builder of crockerio/cservice            *)
(* (src/database.go, first revision in the file: lines 1-521).            *)
(*                                                                         *)
(* One BuildTable invocation is a small state machine: the name is        *)
(* validated, the configuration callback performs a sequence of calls on  *)
(* the TableBuilder surface, and after the callback returns the empty     *)
(* check, the system-column injection and the rendering run.  Go strings  *)
(* are TLA+ strings; fmt.Sprintf is modelled by concatenation.            *)
(***************************************************************************)
EXTENDS Integers, Sequences, FiniteSets, TLC

\* ------------------------------------------------------------------------
\* Bounds of the model
\* ------------------------------------------------------------------------

\* surface calls one callback makes under Spec
MaxCalls == 2

\* surface calls one callback makes under SpecFlags
MaxFlagCalls == 3

\* surface calls one callback makes under SpecBit
MaxBitCalls == 2

\* table names handed to BuildTable
TableNames ==
    { "", "test", "$T_1", "a,b", ",", "Test Table", "Test T@ble", " ",
      "a/", "a:", "a[", "a{", "a-z", "@", "t;" }

\* column names the callback uses
ColNames == { "ID", "CreatedAt", "UpdatedAt", "DeletedAt", "col1" }

\* column names the callback uses under SpecFlags and SpecBit
FlagColNames == { "ID", "col1" }

\* lengths handed to Bit
BitLengths == { -2147483647, -1, 0, 1, 2, 8, 63, 64, 65, 70, 2147483647 }

\* lengths handed to Bit under SpecFlags
FlagBitLengths == { 8, 70 }

\* flags values handed to MakeColumn by the callback
FlagValues == { 0, 2, 16, 31 }

\* surface calls one callback makes under SpecRender
MaxRenderCalls == 2

\* surface calls one callback makes under SpecDecode
MaxDecodeCalls == 2

\* flags values handed to MakeColumn under SpecDecode: every combination of
\* the five modifiers and values with higher bits of the uint8
DecodeFlagValues == (0 .. 31) \cup { 32, 47, 128, 255 }

\* surface calls one callback makes under SpecCase
MaxCaseCalls == 2

\* column names the callback uses under SpecCase: system names and names
\* that differ from them by letter case only
CaseColNames == { "ID", "id", "CreatedAt", "createdat" }

\* names handed to the mutators under SpecCase
CaseMutatorNames == { "ID", "id" }

\* surface calls one callback makes under SpecVerbatim
MaxVerbatimCalls == 1

\* column names no identifier rule would accept
VerbatimColNames == { "", "a b", "x;--", "col)" }

\* Enum and Set values with quotes, brackets and nothing in them
VerbatimValueLists == { << "b'c" >>, << "x)", "" >> }

\* surface calls one callback makes under SpecEnum
MaxEnumCalls == 1

\* number of values handed to Enum and Set
MaxValues == 2

\* the values handed to Enum and Set, one of them with a quote in it
EnumValueSet == { "a", "b'c" }

\* surface calls one callback makes under SpecTypes
MaxTypeCalls == 1

\* surface calls one callback makes under SpecMulti
MaxMultiCalls == 2

\* routes registered one by one under SpecServer
MaxSingles == 2

\* calls of Resource under SpecServer
MaxResources == 1

\* the HTTP methods the server registers routes for
Methods == { "GET", "POST", "PUT", "PATCH", "DELETE" }

\* the paths, handlers and controllers handed to the server
RoutePaths == { "/test" }

PlainHandlers == { "h1" }

Controllers == { "c1" }

\* the paths of the requests
RequestPaths == { "/test", "/test/1", "/test/abc", "/test/-7", "/x" }

\* calls of InitDatabase under SpecOrm
MaxInits == 2

\* the drivers named in the configuration
Drivers == { "mysql", "sqlite", "postgres", "" }

\* the models named in the configuration
ModelLists == { <<>>, << "A", "B", "C" >> }

\* the models whose migration the database refuses
FailingModels == { {}, { "B" }, { "A", "C" } }

\* the BuildTable invocations that run side by side under SpecMulti
Invocations == { 1, 2 }

\* the table names handed to them
MultiNames == { "test", "a b" }

\* the surface calls their callbacks make
MultiOps ==
    { [ op |-> "ID", name |-> "ID" ],
      [ op |-> "Integer", name |-> "col1" ],
      [ op |-> "Unsigned", name |-> "col1" ] }

\* lengths handed to Char, Varchar, Binary and Varbinary
SizedLengths == { 0, 40 }

\* precision and scale handed to Decimal and Numeric
DecimalArgs == { <<5, 2>>, <<2, 5>> }

\* flags values handed to MakeColumn under SpecRender: every combination of
\* NOT_NULL, AUTO_INCREMENT, UNIQUE and PRIMARY
RenderFlagValues == 0 .. 15

\* ------------------------------------------------------------------------
\* columnModifier (uint8 bitmask)
\* ------------------------------------------------------------------------

M_NOT_NULL == 1

M_AUTO_INCREMENT == 2

M_UNIQUE == 4

M_PRIMARY == 8

M_UNSIGNED == 16

M_NONE == 0

\* width of columnModifier
ModifierBits == 8

RECURSIVE Pow2(_)
Pow2(n) == IF n = 0 THEN 1 ELSE 2 * Pow2(n - 1)

BitAt(x, i) == (x \div Pow2(i)) % 2

RECURSIVE BitwiseFrom(_, _, _, _)
BitwiseFrom(a, b, i, isOr) ==
    IF i = ModifierBits THEN 0
    ELSE (IF isOr
          THEN (IF BitAt(a, i) = 1 \/ BitAt(b, i) = 1 THEN Pow2(i) ELSE 0)
          ELSE (IF BitAt(a, i) = 1 /\ BitAt(b, i) = 1 THEN Pow2(i) ELSE 0))
         + BitwiseFrom(a, b, i + 1, isOr)

\* a | b on columnModifier
BitOr(a, b) == BitwiseFrom(a, b, 0, TRUE)

\* a & b on columnModifier
BitAnd(a, b) == BitwiseFrom(a, b, 0, FALSE)

\* ------------------------------------------------------------------------
\* State
\* ------------------------------------------------------------------------
VARIABLES
    pc,         \* position of the BuildTable invocation
    tableName,  \* argument tableName
    columns,    \* tb.columns
    logs,       \* messages written to the process-wide logger, in order
    calls,      \* number of times builder(tb) has been invoked
    steps,      \* surface calls the callback has made so far
    sql,        \* first result of BuildTable
    err,        \* second result of BuildTable
    inv,        \* the BuildTable invocations that run side by side
    mlogs,      \* what they wrote to the process-wide logger, in order
    routes,     \* s.routes
    dbSet,      \* the controllers that were handed the connection
    served,     \* what the last request led to
    db,         \* the package variable db of the ORM layer
    inits,      \* calls of InitDatabase so far
    initErr,    \* what the last call of InitDatabase returned
    migrations, \* the calls of db.AutoMigrate, in order, with their outcome
    got         \* what the last call of GetDB led to

\* the state of the invocations that run side by side
multiVars == <<inv, mlogs>>

\* the state of the server
serverVars == <<routes, dbSet, served>>

\* the state of the ORM layer
ormVars == <<db, inits, initErr, migrations, got>>

vars == <<pc, tableName, columns, logs, calls, steps, sql, err, inv, mlogs,
          routes, dbSet, served, db, inits, initErr, migrations, got>>

\* the nil error
NilError == <<>>

\* fmt.Errorf / errors.New: a non-nil error with the given text
NewError(text) == <<text>>

ErrorText(e) == e[1]

\* ------------------------------------------------------------------------
\* Table name validation
\* ------------------------------------------------------------------------
Digits == { "0", "1", "2", "3", "4", "5", "6", "7", "8", "9" }

LowerLetters ==
    { "a", "b", "c", "d", "e", "f", "g", "h", "i", "j", "k", "l", "m",
      "n", "o", "p", "q", "r", "s", "t", "u", "v", "w", "x", "y", "z" }

UpperLetters ==
    { "A", "B", "C", "D", "E", "F", "G", "H", "I", "J", "K", "L", "M",
      "N", "O", "P", "Q", "R", "S", "T", "U", "V", "W", "X", "Y", "Z" }

CharAt(s, i) == SubSeq(s, i, i)

\* NameClass without the dollar sign
NameClassNoDollar == Digits \cup {","} \cup LowerLetters \cup UpperLetters \cup {"_"}

\* the character class of the regular expression in BuildTable,
\* [0-9,a-z,A-Z$_]: the two commas are members of the class
NameClass == Digits \cup {","} \cup LowerLetters \cup {","} \cup UpperLetters \cup {"$", "_"}

\* regexp.Match("^[0-9,a-z,A-Z$_]+$", tableName): one or more characters,
\* all of the class, anchored at both ends of the text
validName(s) ==
    /\ Len(s) >= 1
    /\ \A i \in 1..Len(s) : CharAt(s, i) \in NameClass

\* ------------------------------------------------------------------------
\* The table and the logger as one value, threaded through the methods
\* ------------------------------------------------------------------------

\* the receiver t of the methods, with the output of the logger so far
Tb == [name |-> tableName, columns |-> columns, logs |-> logs]

\* log.Printf (the message text; the prefix of the logger is left out)
Printf(t, msg) == [t EXCEPT !.logs = Append(@, msg)]

DuplicateWarning(name, tname) ==
    "column " \o name \o " already defined in table " \o tname

NotFoundWarning(name) == "column " \o name \o " not found"

BitBelowWarning(length) ==
    "length (" \o ToString(length)
        \o ") passed to Bit column is below the minimum value accepted by this field (1)"

BitAboveWarning(length) ==
    "length (" \o ToString(length)
        \o ") passed to Bit column is above the maximum value accepted by this field (64)"

\* hasColumn looking at the last column only
hasColumnLastOnly(t, name) ==
    Len(t.columns) > 0 /\ t.columns[Len(t.columns)].name = name

hasColumn(t, name) == \E i \in 1..Len(t.columns) : t.columns[i].name = name

\* index of the first column with the name (the loops return at the first match)
FirstIndex(cols, name) ==
    CHOOSE i \in 1..Len(cols) :
        /\ cols[i].name = name
        /\ \A j \in 1..(i - 1) : cols[j].name # name

\* MakeColumn without the hasColumn check
MakeColumnNoDedup(t, name, dataType, flags) ==
    [t EXCEPT !.columns = Append(@,
        [ name          |-> name,
          dataType      |-> dataType,
          notNull       |-> BitAnd(flags, M_NOT_NULL) # 0,
          autoIncrement |-> BitAnd(flags, M_AUTO_INCREMENT) # 0,
          unique        |-> BitAnd(flags, M_UNIQUE) # 0,
          primary       |-> BitAnd(flags, M_PRIMARY) # 0,
          unsigned      |-> FALSE ])]

\* MakeColumn where a later definition replaces the earlier one
MakeColumnLastWins(t, name, dataType, flags) ==
    LET col == [ name          |-> name,
                 dataType      |-> dataType,
                 notNull       |-> BitAnd(flags, M_NOT_NULL) # 0,
                 autoIncrement |-> BitAnd(flags, M_AUTO_INCREMENT) # 0,
                 unique        |-> BitAnd(flags, M_UNIQUE) # 0,
                 primary       |-> BitAnd(flags, M_PRIMARY) # 0,
                 unsigned      |-> FALSE ]
    IN  IF hasColumn(t, name)
        THEN [t EXCEPT !.columns[FirstIndex(t.columns, name)] = col,
                       !.logs = Append(@, DuplicateWarning(name, t.name))]
        ELSE [t EXCEPT !.columns = Append(@, col)]

\* MakeColumn decoding the M_UNSIGNED bit as it decodes the others
MakeColumnDecodesUnsigned(t, name, dataType, flags) ==
    IF hasColumn(t, name)
    THEN Printf(t, DuplicateWarning(name, t.name))
    ELSE [t EXCEPT !.columns = Append(@,
            [ name          |-> name,
              dataType      |-> dataType,
              notNull       |-> BitAnd(flags, M_NOT_NULL) # 0,
              autoIncrement |-> BitAnd(flags, M_AUTO_INCREMENT) # 0,
              unique        |-> BitAnd(flags, M_UNIQUE) # 0,
              primary       |-> BitAnd(flags, M_PRIMARY) # 0,
              unsigned      |-> BitAnd(flags, M_UNSIGNED) # 0 ])]

\* MakeColumn holding column names to the rule of table names
MakeColumnValidatesName(t, name, dataType, flags) ==
    IF ~validName(name)
    THEN Printf(t, "column name " \o name \o " is invalid")
    ELSE MakeColumnNoDedup(t, name, dataType, flags)

MakeColumn(t, name, dataType, flags) ==
    IF hasColumn(t, name)
    THEN Printf(t, DuplicateWarning(name, t.name))
    ELSE [t EXCEPT !.columns = Append(@,
            [ name          |-> name,
              dataType      |-> dataType,
              notNull       |-> BitAnd(flags, M_NOT_NULL) # 0,
              autoIncrement |-> BitAnd(flags, M_AUTO_INCREMENT) # 0,
              unique        |-> BitAnd(flags, M_UNIQUE) # 0,
              primary       |-> BitAnd(flags, M_PRIMARY) # 0,
              unsigned      |-> FALSE ])]

\* ID taking a column named id for the identifier column
IDTakesLowerCase(t) ==
    IF hasColumn(t, "id")
    THEN Printf(t, DuplicateWarning("ID", t.name))
    ELSE MakeColumn(t, "ID", "CHAR(40)", BitOr(BitOr(M_UNIQUE, M_PRIMARY), M_NOT_NULL))

ID(t) == MakeColumn(t, "ID", "CHAR(40)", BitOr(BitOr(M_UNIQUE, M_PRIMARY), M_NOT_NULL))

Integer(t, name) == MakeColumn(t, name, "INTEGER", M_NOT_NULL)

\* smallest and largest length of a BIT column
BitMinLength == 1

BitMaxLength == 64

\* Bit with the upper comparison off by one
BitOffByOne(t, name, length) ==
    LET t1 == IF length < BitMinLength THEN Printf(t, BitBelowWarning(length)) ELSE t
        l1 == IF length < BitMinLength THEN BitMinLength ELSE length
        t2 == IF l1 >= BitMaxLength THEN Printf(t1, BitAboveWarning(l1)) ELSE t1
        l2 == IF l1 >= BitMaxLength THEN BitMaxLength ELSE l1
    IN  MakeColumn(t2, name, "BIT(" \o ToString(l2) \o ")", M_NOT_NULL)

Bit(t, name, length) ==
    LET t1 == IF length < BitMinLength THEN Printf(t, BitBelowWarning(length)) ELSE t
        l1 == IF length < BitMinLength THEN BitMinLength ELSE length
        t2 == IF l1 > BitMaxLength THEN Printf(t1, BitAboveWarning(l1)) ELSE t1
        l2 == IF l1 > BitMaxLength THEN BitMaxLength ELSE l1
    IN  MakeColumn(t2, name, "BIT(" \o ToString(l2) \o ")", M_NOT_NULL)

\* Timestamps creating DeletedAt as NOT NULL like the other two
TimestampsAllNotNull(t) ==
    LET t1 == MakeColumn(t, "CreatedAt", "DATETIME", M_NOT_NULL)
        t2 == MakeColumn(t1, "UpdatedAt", "DATETIME", M_NOT_NULL)
    IN  MakeColumn(t2, "DeletedAt", "DATETIME", M_NOT_NULL)

\* Timestamps creating UpdatedAt before CreatedAt
TimestampsReordered(t) ==
    LET t1 == MakeColumn(t, "UpdatedAt", "DATETIME", M_NOT_NULL)
        t2 == MakeColumn(t1, "CreatedAt", "DATETIME", M_NOT_NULL)
    IN  MakeColumn(t2, "DeletedAt", "DATETIME", M_NONE)

Timestamps(t) ==
    LET t1 == MakeColumn(t, "CreatedAt", "DATETIME", M_NOT_NULL)
        t2 == MakeColumn(t1, "UpdatedAt", "DATETIME", M_NOT_NULL)
    IN  MakeColumn(t2, "DeletedAt", "DATETIME", M_NONE)

\* the other type factories
Tinyint(t, name) == MakeColumn(t, name, "TINYINT", M_NOT_NULL)

Smallint(t, name) == MakeColumn(t, name, "SMALLINT", M_NOT_NULL)

Mediumint(t, name) == MakeColumn(t, name, "MEDIUMINT", M_NOT_NULL)

Bigint(t, name) == MakeColumn(t, name, "BIGINT", M_NOT_NULL)

Float(t, name) == MakeColumn(t, name, "FLOAT", M_NOT_NULL)

Double(t, name) == MakeColumn(t, name, "DOUBLE", M_NOT_NULL)

Date(t, name) == MakeColumn(t, name, "DATE", M_NOT_NULL)

DateTime(t, name) == MakeColumn(t, name, "DATETIME", M_NOT_NULL)

Timestamp(t, name) == MakeColumn(t, name, "TIMESTAMP", M_NOT_NULL)

Time(t, name) == MakeColumn(t, name, "TIME", M_NOT_NULL)

Year(t, name) == MakeColumn(t, name, "YEAR", M_NOT_NULL)

Tinyblob(t, name) == MakeColumn(t, name, "TINYBLOB", M_NOT_NULL)

Blob(t, name) == MakeColumn(t, name, "BLOB", M_NOT_NULL)

Mediumblob(t, name) == MakeColumn(t, name, "MEDIUMBLOB", M_NOT_NULL)

Longblob(t, name) == MakeColumn(t, name, "LONGBLOB", M_NOT_NULL)

Tinytext(t, name) == MakeColumn(t, name, "TINYTEXT", M_NOT_NULL)

Text(t, name) == MakeColumn(t, name, "TEXT", M_NOT_NULL)

\* Mediumtext with the fragment of Mediumblob
MediumtextAsBlob(t, name) == MakeColumn(t, name, "MEDIUMBLOB", M_NOT_NULL)

Mediumtext(t, name) == MakeColumn(t, name, "MEDIUMTEXT", M_NOT_NULL)

Longtext(t, name) == MakeColumn(t, name, "LONGTEXT", M_NOT_NULL)

Decimal(t, name, precision, scale) ==
    MakeColumn(t, name, "DECIMAL(" \o ToString(precision) \o ", " \o ToString(scale) \o ")", M_NOT_NULL)

Numeric(t, name, precision, scale) == Decimal(t, name, precision, scale)

Char(t, name, length) ==
    MakeColumn(t, name, "CHAR(" \o ToString(length) \o ")", M_NOT_NULL)

Varchar(t, name, length) ==
    MakeColumn(t, name, "VARCHAR(" \o ToString(length) \o ")", M_NOT_NULL)

Binary(t, name, length) ==
    MakeColumn(t, name, "BINARY(" \o ToString(length) \o ")", M_NOT_NULL)

Varbinary(t, name, length) ==
    MakeColumn(t, name, "VARBINARY(" \o ToString(length) \o ")", M_NOT_NULL)

RECURSIVE EnumValuesFrom(_, _)
\* the loop of Enum over the values, from the n-th value on
EnumValuesFrom(values, n) ==
    IF n > Len(values) THEN ""
    ELSE "'" \o values[n] \o "'"
            \o (IF n # Len(values) THEN ", " ELSE "")
            \o EnumValuesFrom(values, n + 1)

Enum(t, name, values) ==
    MakeColumn(t, name, "ENUM(" \o EnumValuesFrom(values, 1) \o ")", M_NOT_NULL)

RECURSIVE SetValuesNoSpace(_, _)
\* the loop of Set with a separator that has no space
SetValuesNoSpace(values, n) ==
    IF n > Len(values) THEN ""
    ELSE "'" \o values[n] \o "'"
            \o (IF n # Len(values) THEN "," ELSE "")
            \o SetValuesNoSpace(values, n + 1)

RECURSIVE SetValuesFrom(_, _)
\* the loop of Set over the values, from the n-th value on
SetValuesFrom(values, n) ==
    IF n > Len(values) THEN ""
    ELSE "'" \o values[n] \o "'"
            \o (IF n # Len(values) THEN ", " ELSE "")
            \o SetValuesFrom(values, n + 1)

Set(t, name, values) ==
    MakeColumn(t, name, "SET(" \o SetValuesFrom(values, 1) \o ")", M_NOT_NULL)

\* the methods of TableBuilder that take a name only
KeywordKinds ==
    { "Integer", "Tinyint", "Smallint", "Mediumint", "Bigint", "Float", "Double",
      "Date", "DateTime", "Timestamp",
      "Time", "Year", "Tinyblob", "Blob", "Mediumblob", "Longblob",
      "Tinytext", "Text", "Mediumtext", "Longtext" }

\* the call tb.<kind>(name) through the interface
KeywordFactory(kind, t, name) ==
    CASE kind = "Integer" -> Integer(t, name)
      [] kind = "Tinyint" -> Tinyint(t, name)
      [] kind = "Smallint" -> Smallint(t, name)
      [] kind = "Mediumint" -> Mediumint(t, name)
      [] kind = "Bigint" -> Bigint(t, name)
      [] kind = "Float" -> Float(t, name)
      [] kind = "Double" -> Double(t, name)
      [] kind = "Date" -> Date(t, name)
      [] kind = "DateTime" -> DateTime(t, name)
      [] kind = "Timestamp" -> Timestamp(t, name)
      [] kind = "Time" -> Time(t, name)
      [] kind = "Year" -> Year(t, name)
      [] kind = "Tinyblob" -> Tinyblob(t, name)
      [] kind = "Blob" -> Blob(t, name)
      [] kind = "Mediumblob" -> Mediumblob(t, name)
      [] kind = "Longblob" -> Longblob(t, name)
      [] kind = "Tinytext" -> Tinytext(t, name)
      [] kind = "Text" -> Text(t, name)
      [] kind = "Mediumtext" -> Mediumtext(t, name)
      [] kind = "Longtext" -> Longtext(t, name)

\* the methods of TableBuilder that take a name and a length
SizedKinds == { "Char", "Varchar", "Binary", "Varbinary" }

\* the call tb.<kind>(name, length) through the interface
SizedFactory(kind, t, name, length) ==
    CASE kind = "Char" -> Char(t, name, length)
      [] kind = "Varchar" -> Varchar(t, name, length)
      [] kind = "Binary" -> Binary(t, name, length)
      [] kind = "Varbinary" -> Varbinary(t, name, length)

\* NotNull falling back to the last column when the name is not found
NotNullLastColumn(t, name) ==
    IF hasColumn(t, name)
    THEN [t EXCEPT !.columns[FirstIndex(t.columns, name)].notNull = TRUE]
    ELSE IF Len(t.columns) > 0
         THEN [t EXCEPT !.columns[Len(t.columns)].notNull = TRUE]
         ELSE Printf(t, NotFoundWarning(name))

NotNull(t, name) ==
    IF hasColumn(t, name)
    THEN [t EXCEPT !.columns[FirstIndex(t.columns, name)].notNull = TRUE]
    ELSE Printf(t, NotFoundWarning(name))

\* Nullable clearing the unique flag with the notNull flag
NullableClearsUnique(t, name) ==
    IF hasColumn(t, name)
    THEN [t EXCEPT !.columns[FirstIndex(t.columns, name)].notNull = FALSE,
                   !.columns[FirstIndex(t.columns, name)].unique = FALSE]
    ELSE Printf(t, NotFoundWarning(name))

Nullable(t, name) ==
    IF hasColumn(t, name)
    THEN [t EXCEPT !.columns[FirstIndex(t.columns, name)].notNull = FALSE]
    ELSE Printf(t, NotFoundWarning(name))

AutoIncrement(t, name) ==
    IF hasColumn(t, name)
    THEN [t EXCEPT !.columns[FirstIndex(t.columns, name)].autoIncrement = TRUE]
    ELSE Printf(t, NotFoundWarning(name))

\* Unique making the column the primary key as well
UniqueAlsoPrimary(t, name) ==
    IF hasColumn(t, name)
    THEN [t EXCEPT !.columns[FirstIndex(t.columns, name)].unique = TRUE,
                   !.columns[FirstIndex(t.columns, name)].primary = TRUE]
    ELSE Printf(t, NotFoundWarning(name))

Unique(t, name) ==
    IF hasColumn(t, name)
    THEN [t EXCEPT !.columns[FirstIndex(t.columns, name)].unique = TRUE]
    ELSE Printf(t, NotFoundWarning(name))

\* Unsigned setting the unique attribute as well
UnsignedSetsUnique(t, name) ==
    IF hasColumn(t, name)
    THEN [t EXCEPT !.columns[FirstIndex(t.columns, name)].unsigned = TRUE,
                   !.columns[FirstIndex(t.columns, name)].unique = TRUE]
    ELSE Printf(t, NotFoundWarning(name))

Unsigned(t, name) ==
    IF hasColumn(t, name)
    THEN [t EXCEPT !.columns[FirstIndex(t.columns, name)].unsigned = TRUE]
    ELSE Printf(t, NotFoundWarning(name))

\* ------------------------------------------------------------------------
\* Rendering
\* ------------------------------------------------------------------------

\* Keys with UNIQUE written before PRIMARY
KeysUniqueFirst(col) ==
    IF col.primary \/ col.unique
    THEN (IF col.unique THEN "UNIQUE " ELSE "")
            \o (IF col.primary THEN "PRIMARY " ELSE "") \o "KEY"
    ELSE ""

\* the keys fragment of one column
Keys(col) ==
    IF col.primary \/ col.unique
    THEN (IF col.primary THEN "PRIMARY " ELSE "")
            \o (IF col.unique THEN "UNIQUE " ELSE "") \o "KEY"
    ELSE ""

\* Definition with UNSIGNED written after the data type
DefinitionUnsignedAfterType(col) ==
    col.name \o " "
        \o col.dataType \o " "
        \o (IF col.unsigned THEN "UNSIGNED " ELSE "")
        \o (IF col.notNull THEN "NOT NULL " ELSE "")
        \o (IF col.autoIncrement THEN "AUTO_INCREMENT " ELSE "")
        \o Keys(col) \o ","

\* the definition of one column, with its trailing comma
Definition(col) ==
    col.name \o " "
        \o (IF col.unsigned THEN "UNSIGNED " ELSE "")
        \o col.dataType \o " "
        \o (IF col.notNull THEN "NOT NULL " ELSE "")
        \o (IF col.autoIncrement THEN "AUTO_INCREMENT " ELSE "")
        \o Keys(col) \o ","

RECURSIVE ColBuilder(_)
ColBuilder(cols) ==
    IF cols = <<>> THEN "" ELSE Definition(Head(cols)) \o ColBuilder(Tail(cols))

\* toSQL cutting two bytes off the column definitions
toSQLStripsTwo(t) ==
    LET b == ColBuilder(t.columns)
    IN  "CREATE TABLE IF NOT EXISTS " \o t.name \o "("
            \o SubSeq(b, 1, Len(b) - 2) \o ")"

\* what toSQL yields when the slice expression panics (no column)
SlicePanic == "panic: slice bounds out of range [:-1]"

toSQL(t) ==
    LET b == ColBuilder(t.columns)
    IN  IF Len(b) = 0
        THEN SlicePanic
        ELSE "CREATE TABLE IF NOT EXISTS " \o t.name \o "("
                \o SubSeq(b, 1, Len(b) - 1) \o ")"

\* ------------------------------------------------------------------------
\* BuildTable
\* ------------------------------------------------------------------------
\* an invocation that has not been called yet
IdleInvocation ==
    [ pc |-> "idle", tableName |-> "", columns |-> <<>>, steps |-> 0,
      sql |-> "", err |-> NilError, trace |-> <<>>, after |-> {} ]

\* no request has been served yet
NoRequest == [ outcome |-> "none" ]

\* var db *gorm.DB: the nil pointer
NilDB == [ driver |-> "", call |-> 0 ]

\* GetDB has not been called yet
NoCall == [ outcome |-> "none", db |-> NilDB, message |-> "", at |-> 0 ]

Init ==
    /\ pc = "start"
    /\ tableName \in TableNames
    /\ columns = <<>>
    /\ logs = <<>>
    /\ calls = 0
    /\ steps = 0
    /\ sql = ""
    /\ err = NilError
    /\ inv = [ p \in Invocations |-> IdleInvocation ]
    /\ mlogs = <<>>
    /\ routes = <<>>
    /\ dbSet = {}
    /\ served = NoRequest
    /\ db = NilDB
    /\ inits = 0
    /\ initErr = NilError
    /\ migrations = <<>>
    /\ got = NoCall

\* BuildTableInvalid returning the head of a statement beside the error
BuildTableInvalidWithSQL ==
    /\ pc = "start"
    /\ ~validName(tableName)
    /\ pc' = "returned"
    /\ sql' = "CREATE TABLE IF NOT EXISTS " \o tableName
    /\ err' = NewError("table name " \o tableName \o " is invalid")
    /\ UNCHANGED <<tableName, columns, logs, calls, steps>>
    /\ UNCHANGED <<multiVars, serverVars, ormVars>>

\* the name does not match: BuildTable returns at once
BuildTableInvalid ==
    /\ pc = "start"
    /\ ~validName(tableName)
    /\ pc' = "returned"
    /\ sql' = ""
    /\ err' = NewError("table name " \o tableName \o " is invalid")
    /\ UNCHANGED <<tableName, columns, logs, calls, steps>>
    /\ UNCHANGED <<multiVars, serverVars, ormVars>>

\* the name matches: the table is created and builder(tb) is invoked
BuildTableEnter ==
    /\ pc = "start"
    /\ validName(tableName)
    /\ pc' = "callback"
    /\ columns' = <<>>
    /\ calls' = calls + 1
    /\ UNCHANGED <<tableName, logs, steps, sql, err>>
    /\ UNCHANGED <<multiVars, serverVars, ormVars>>

\* one call of the callback on the surface, with the table it leaves
Surface(t) ==
    /\ pc = "callback"
    /\ columns' = t.columns
    /\ logs' = t.logs
    /\ steps' = steps + 1
    /\ UNCHANGED <<pc, tableName, calls, sql, err>>
    /\ UNCHANGED <<multiVars, serverVars, ormVars>>

CallID == Surface(ID(Tb))

CallInteger(name) == Surface(Integer(Tb, name))

CallBit(name, length) == Surface(Bit(Tb, name, length))

CallTimestamps == Surface(Timestamps(Tb))

CallMakeColumn(name, dataType, flags) == Surface(MakeColumn(Tb, name, dataType, flags))

CallNotNull(name) == Surface(NotNull(Tb, name))

CallNullable(name) == Surface(Nullable(Tb, name))

CallAutoIncrement(name) == Surface(AutoIncrement(Tb, name))

CallUnique(name) == Surface(Unique(Tb, name))

CallUnsigned(name) == Surface(Unsigned(Tb, name))

CallKeyword(kind, name) == Surface(KeywordFactory(kind, Tb, name))

CallSized(kind, name, length) == Surface(SizedFactory(kind, Tb, name, length))

CallDecimal(name, precision, scale) == Surface(Decimal(Tb, name, precision, scale))

CallNumeric(name, precision, scale) == Surface(Numeric(Tb, name, precision, scale))

CallEnum(name, values) == Surface(Enum(Tb, name, values))

CallSet(name, values) == Surface(Set(Tb, name, values))

\* BuildTableFinish with the empty check made after the injection
BuildTableFinishLateCheck ==
    /\ pc = "callback"
    /\ LET t == Timestamps(ID(Tb))
           s == toSQL(t)
       IN  IF Len(t.columns) = 0
           THEN /\ pc' = "returned"
                /\ sql' = ""
                /\ err' = NewError("builder method is empty")
                /\ UNCHANGED <<columns, logs>>
           ELSE /\ columns' = t.columns
                /\ logs' = t.logs
                /\ pc' = "returned"
                /\ sql' = s
                /\ err' = NilError
    /\ UNCHANGED <<tableName, calls, steps>>
    /\ UNCHANGED <<multiVars, serverVars, ormVars>>

\* BuildTableFinish rendering the table of the callback before anything else
BuildTableFinishRendersFirst ==
    /\ pc = "callback"
    /\ IF toSQL(Tb) = SlicePanic
       THEN pc' = "panicked" /\ UNCHANGED <<columns, logs, sql, err>>
       ELSE LET t == Timestamps(ID(Tb))
            IN  /\ columns' = t.columns
                /\ logs' = t.logs
                /\ pc' = "returned"
                /\ sql' = toSQL(t)
                /\ err' = NilError
    /\ UNCHANGED <<tableName, calls, steps>>
    /\ UNCHANGED <<multiVars, serverVars, ormVars>>

\* the callback returned: empty check, ID(), Timestamps(), toSQL()
BuildTableFinish ==
    /\ pc = "callback"
    /\ IF Len(columns) = 0
       THEN /\ pc' = "returned"
            /\ sql' = ""
            /\ err' = NewError("builder method is empty")
            /\ UNCHANGED <<columns, logs>>
       ELSE LET t == Timestamps(ID(Tb))
                s == toSQL(t)
            IN  /\ columns' = t.columns
                /\ logs' = t.logs
                /\ IF s = SlicePanic
                   THEN pc' = "panicked" /\ UNCHANGED <<sql, err>>
                   ELSE pc' = "returned" /\ sql' = s /\ err' = NilError
    /\ UNCHANGED <<tableName, calls, steps>>
    /\ UNCHANGED <<multiVars, serverVars, ormVars>>

\* the calls of the callback under Spec
Callback ==
    /\ steps < MaxCalls
    /\ \/ CallID
       \/ CallTimestamps
       \/ \E n \in ColNames : CallInteger(n)
       \/ \E n \in ColNames : CallMakeColumn(n, "TEXT", M_NONE)
       \/ \E n \in ColNames : CallNotNull(n)
       \/ \E n \in ColNames : CallNullable(n)
       \/ \E n \in ColNames : CallAutoIncrement(n)
       \/ \E n \in ColNames : CallUnique(n)
       \/ \E n \in ColNames : CallUnsigned(n)

Next ==
    \/ BuildTableInvalid
    \/ BuildTableEnter
    \/ Callback
    \/ BuildTableFinish

Spec == Init /\ [][Next]_vars

\* the calls of the callback under SpecFlags: creation with every flags
\* value, duplicates and the five mutators on few names, in longer callbacks
FlagCallback ==
    /\ steps < MaxFlagCalls
    /\ \/ CallID
       \/ \E n \in FlagColNames : CallInteger(n)
       \/ \E n \in FlagColNames, f \in FlagValues : CallMakeColumn(n, "TEXT", f)
       \/ \E n \in FlagColNames, l \in FlagBitLengths : CallBit(n, l)
       \/ \E n \in FlagColNames : CallNotNull(n)
       \/ \E n \in FlagColNames : CallNullable(n)
       \/ \E n \in FlagColNames : CallAutoIncrement(n)
       \/ \E n \in FlagColNames : CallUnique(n)
       \/ \E n \in FlagColNames : CallUnsigned(n)

NextFlags ==
    \/ BuildTableInvalid
    \/ BuildTableEnter
    \/ FlagCallback
    \/ BuildTableFinish

SpecFlags == Init /\ [][NextFlags]_vars

\* the calls of the callback under SpecBit: Bit with lengths below, inside
\* and above the range, on new and on existing names
BitCallback ==
    /\ steps < MaxBitCalls
    /\ \/ \E n \in FlagColNames, l \in BitLengths : CallBit(n, l)
       \/ \E n \in FlagColNames : CallInteger(n)

NextBit ==
    \/ BuildTableInvalid
    \/ BuildTableEnter
    \/ BitCallback
    \/ BuildTableFinish

SpecBit == Init /\ [][NextBit]_vars

\* the calls of the callback under SpecRender: col1 created with every
\* combination of the creation flags, and made UNSIGNED
RenderCallback ==
    /\ steps < MaxRenderCalls
    /\ \/ \E f \in RenderFlagValues : CallMakeColumn("col1", "TEXT", f)
       \/ CallUnsigned("col1")

NextRender ==
    \/ BuildTableInvalid
    \/ BuildTableEnter
    \/ RenderCallback
    \/ BuildTableFinish

SpecRender == Init /\ [][NextRender]_vars

\* the calls of the callback under SpecDecode: creation with every flags
\* value, and the mutator of the unsigned field
DecodeCallback ==
    /\ steps < MaxDecodeCalls
    /\ \/ \E f \in DecodeFlagValues : CallMakeColumn("col1", "TEXT", f)
       \/ \E n \in FlagColNames : CallUnsigned(n)

NextDecode ==
    \/ BuildTableInvalid
    \/ BuildTableEnter
    \/ DecodeCallback
    \/ BuildTableFinish

SpecDecode == Init /\ [][NextDecode]_vars

\* the calls of the callback under SpecCase
CaseCallback ==
    /\ steps < MaxCaseCalls
    /\ \/ CallID
       \/ \E n \in CaseColNames : CallInteger(n)
       \/ \E n \in CaseMutatorNames : CallNullable(n)
       \/ \E n \in CaseMutatorNames : CallUnique(n)

NextCase ==
    \/ BuildTableInvalid
    \/ BuildTableEnter
    \/ CaseCallback
    \/ BuildTableFinish

SpecCase == Init /\ [][NextCase]_vars

\* the calls of the callback under SpecVerbatim
VerbatimCallback ==
    /\ steps < MaxVerbatimCalls
    /\ \/ \E n \in VerbatimColNames : CallInteger(n)
       \/ \E n \in VerbatimColNames, vs \in VerbatimValueLists : CallEnum(n, vs)
       \/ \E n \in VerbatimColNames, vs \in VerbatimValueLists : CallSet(n, vs)

NextVerbatim ==
    \/ BuildTableInvalid
    \/ BuildTableEnter
    \/ VerbatimCallback
    \/ BuildTableFinish

SpecVerbatim == Init /\ [][NextVerbatim]_vars

\* the sequences over the set of at most n elements
SeqsUpTo(S, n) == UNION { [1..k -> S] : k \in 0..n }

\* the calls of the callback under SpecEnum
EnumCallback ==
    /\ steps < MaxEnumCalls
    /\ \/ \E vs \in SeqsUpTo(EnumValueSet, MaxValues) : CallEnum("col1", vs)
       \/ \E vs \in SeqsUpTo(EnumValueSet, MaxValues) : CallSet("col1", vs)

NextEnum ==
    \/ BuildTableInvalid
    \/ BuildTableEnter
    \/ EnumCallback
    \/ BuildTableFinish

SpecEnum == Init /\ [][NextEnum]_vars

\* the calls of the callback under SpecTypes: every type factory once
TypeCallback ==
    /\ steps < MaxTypeCalls
    /\ \/ CallID
       \/ \E k \in KeywordKinds : CallKeyword(k, "col1")
       \/ \E k \in SizedKinds, l \in SizedLengths : CallSized(k, "col1", l)
       \/ \E a \in DecimalArgs : CallDecimal("col1", a[1], a[2])
       \/ \E a \in DecimalArgs : CallNumeric("col1", a[1], a[2])
       \/ \E l \in FlagBitLengths : CallBit("col1", l)
       \/ CallEnum("col1", << "a", "a" >>)
       \/ CallSet("col1", << "a" >>)

NextTypes ==
    \/ BuildTableInvalid
    \/ BuildTableEnter
    \/ TypeCallback
    \/ BuildTableFinish

SpecTypes == Init /\ [][NextTypes]_vars

\* ------------------------------------------------------------------------
\* several BuildTable invocations side by side
\* ------------------------------------------------------------------------

\* the invocations that have returned
Returned == { q \in Invocations : inv[q].pc = "returned" }

\* a table that outlives the invocation: the columns of one that returned
NewTableStale(name) ==
    [ name |-> name,
      columns |-> IF Returned = {} THEN <<>>
                  ELSE inv[CHOOSE q \in Returned : TRUE].columns,
      logs |-> <<>> ]

\* tb := &table{name: tableName}
NewTable(name) == [ name |-> name, columns |-> <<>>, logs |-> <<>> ]

\* one table shared by the invocations: the table of the first
TableShared(p) ==
    [ name |-> inv[p].tableName, columns |-> inv[1].columns, logs |-> <<>> ]

\* the table the callback of the invocation is handed (its local tb)
TableOf(p) ==
    [ name |-> inv[p].tableName, columns |-> inv[p].columns, logs |-> <<>> ]

\* the messages of the invocation as they arrive at the logger
Tagged(p, msgs) == [ i \in 1..Len(msgs) |-> [ by |-> p, text |-> msgs[i] ] ]

\* one surface call
Apply(o, t) ==
    CASE o.op = "ID" -> ID(t)
      [] o.op = "Integer" -> Integer(t, o.name)
      [] o.op = "Unsigned" -> Unsigned(t, o.name)

MultiBuildTableInvalid(p, name) ==
    /\ inv[p].pc = "idle"
    /\ ~validName(name)
    /\ inv' = [ inv EXCEPT ![p] =
                  [ @ EXCEPT !.pc = "returned", !.tableName = name,
                             !.after = Returned, !.sql = "",
                             !.err = NewError("table name " \o name \o " is invalid") ] ]
    /\ UNCHANGED <<mlogs, serverVars>>
    /\ UNCHANGED <<pc, tableName, columns, logs, calls, steps, sql, err, ormVars>>

MultiBuildTableEnter(p, name) ==
    /\ inv[p].pc = "idle"
    /\ validName(name)
    /\ inv' = [ inv EXCEPT ![p] =
                  [ @ EXCEPT !.pc = "callback", !.tableName = name,
                             !.after = Returned,
                             !.columns = NewTable(name).columns ] ]
    /\ UNCHANGED <<mlogs, serverVars>>
    /\ UNCHANGED <<pc, tableName, columns, logs, calls, steps, sql, err, ormVars>>

MultiSurface(p, o) ==
    /\ inv[p].pc = "callback"
    /\ inv[p].steps < MaxMultiCalls
    /\ LET t == Apply(o, TableOf(p))
       IN  /\ inv' = [ inv EXCEPT ![p] =
                         [ @ EXCEPT !.columns = t.columns, !.steps = @ + 1,
                                    !.trace = Append(@, o) ] ]
           /\ mlogs' = mlogs \o Tagged(p, t.logs)
    /\ UNCHANGED serverVars
    /\ UNCHANGED <<pc, tableName, columns, logs, calls, steps, sql, err, ormVars>>

MultiBuildTableFinish(p) ==
    /\ inv[p].pc = "callback"
    /\ IF Len(TableOf(p).columns) = 0
       THEN /\ inv' = [ inv EXCEPT ![p] =
                          [ @ EXCEPT !.pc = "returned", !.sql = "",
                                     !.err = NewError("builder method is empty") ] ]
            /\ UNCHANGED mlogs
       ELSE LET t == Timestamps(ID(TableOf(p)))
                s == toSQL(t)
            IN  /\ mlogs' = mlogs \o Tagged(p, t.logs)
                /\ inv' = [ inv EXCEPT ![p] =
                              IF s = SlicePanic
                              THEN [ @ EXCEPT !.pc = "panicked", !.columns = t.columns ]
                              ELSE [ @ EXCEPT !.pc = "returned", !.columns = t.columns,
                                              !.sql = s, !.err = NilError ] ]
    /\ UNCHANGED serverVars
    /\ UNCHANGED <<pc, tableName, columns, logs, calls, steps, sql, err, ormVars>>

\* the invocations take their steps in any order
NextMulti ==
    \/ \E p \in Invocations, n \in MultiNames : MultiBuildTableInvalid(p, n)
    \/ \E p \in Invocations, n \in MultiNames : MultiBuildTableEnter(p, n)
    \/ \E p \in Invocations, o \in MultiOps : MultiSurface(p, o)
    \/ \E p \in Invocations : MultiBuildTableFinish(p)

InitMulti == Init /\ tableName = "test"

SpecMulti == InitMulti /\ [][NextMulti]_vars

\* ------------------------------------------------------------------------
\* Vocabulary of the properties
\* ------------------------------------------------------------------------

\* needle occurs in haystack (strings.Contains)
Contains(haystack, needle) ==
    \/ Len(needle) = 0
    \/ \E i \in 1..(Len(haystack) - Len(needle) + 1) :
          SubSeq(haystack, i, i + Len(needle) - 1) = needle

HasPrefix(s, prefix) ==
    /\ Len(s) >= Len(prefix)
    /\ SubSeq(s, 1, Len(prefix)) = prefix

\* number of places where needle occurs in haystack
Occurrences(haystack, needle) ==
    Cardinality({ i \in 1..(Len(haystack) - Len(needle) + 1) :
                    SubSeq(haystack, i, i + Len(needle) - 1) = needle })

\* the characters the specification allows in a table name
IdentifierChars == Digits \cup LowerLetters \cup UpperLetters \cup {"$", "_"}

\* a name of one or more characters, all of them identifier characters
IdentifierName(s) ==
    /\ Len(s) >= 1
    /\ \A i \in 1..Len(s) : CharAt(s, i) \in IdentifierChars

\* indexes of the columns with the name
IndexesOf(cols, name) == { i \in 1..Len(cols) : cols[i].name = name }

\* the messages logged by the step
NewLogs == SubSeq(logs', Len(logs) + 1, Len(logs'))

\* the step appended to the log and rewrote nothing
LogsExtended ==
    /\ Len(logs') >= Len(logs)
    /\ SubSeq(logs', 1, Len(logs)) = logs

\* number of entries of the sequence equal to the message
CountOf(seq, msg) == Cardinality({ i \in 1..Len(seq) : seq[i] = msg })

\* ------------------------------------------------------------------------
\* C1: a table name that is empty or has a character outside
\* {0-9, a-z, A-Z, $, _} is never accepted: the callback is not entered and
\* BuildTable returns an error whose text contains the name and "is invalid".
\* ------------------------------------------------------------------------
C1_InvalidNameRejected ==
    ~IdentifierName(tableName) =>
        /\ pc \in {"start", "returned"}
        /\ pc = "returned" =>
              /\ err # NilError
              /\ Contains(ErrorText(err), tableName)
              /\ Contains(ErrorText(err), "is invalid")

\* ------------------------------------------------------------------------
\* C2: for a valid table name BuildTable returns the error "builder method
\* is empty" exactly when the table has no column at the moment the callback
\* returns; the check precedes the injection, which then does not happen.
\* ------------------------------------------------------------------------
C2_EmptyBuilderError ==
    [][ (BuildTableFinish /\ IdentifierName(tableName)) =>
            /\ (err' # NilError /\ Contains(ErrorText(err'), "builder method is empty"))
                  <=> (Len(columns) = 0)
            /\ (Len(columns) = 0) => (columns' = <<>> /\ sql' = "" /\ pc' = "returned")
      ]_vars

\* a callback that called only flag mutators was rejected as empty
C2_Witness ==
    /\ pc = "returned"
    /\ IdentifierName(tableName)
    /\ steps > 0
    /\ err = NewError("builder method is empty")

\* ------------------------------------------------------------------------
\* C3: for a table name of identifier characters only, BuildTable enters the
\* callback, and if the callback added a column it returns a nil error and
\* SQL that starts with CREATE TABLE IF NOT EXISTS <name>( for that name.
\* ------------------------------------------------------------------------
C3_ValidNameBuilds ==
    (pc = "returned" /\ IdentifierName(tableName)) =>
        /\ calls = 1
        /\ (Len(columns) > 0) =>
              /\ err = NilError
              /\ HasPrefix(sql, "CREATE TABLE IF NOT EXISTS " \o tableName \o "(")

\* a build for the name $T_1 succeeded
C3_Witness ==
    /\ pc = "returned"
    /\ tableName = "$T_1"
    /\ err = NilError
    /\ HasPrefix(sql, "CREATE TABLE IF NOT EXISTS $T_1(")

\* ------------------------------------------------------------------------
\* C4: a successful build has exactly one column named ID: the injected
\* ID CHAR(40) NOT NULL PRIMARY UNIQUE KEY when the callback left none, else
\* the column of the callback, unchanged, and no second ID clause.
\* ------------------------------------------------------------------------

\* a column definition as it stands in the SQL (no trailing comma)
Clause(col) == SubSeq(Definition(col), 1, Len(Definition(col)) - 1)

\* number of clauses of the SQL that start with the column name
ClausesNamed(s, name) ==
    Occurrences(s, "(" \o name \o " ") + Occurrences(s, "," \o name \o " ")

InjectedID ==
    [ name |-> "ID", dataType |-> "CHAR(40)", notNull |-> TRUE,
      autoIncrement |-> FALSE, unique |-> TRUE, primary |-> TRUE,
      unsigned |-> FALSE ]

C4_ExactlyOneID ==
    [][ (BuildTableFinish /\ Len(columns) > 0) =>
            /\ err' = NilError
            /\ Cardinality(IndexesOf(columns', "ID")) = 1
            /\ ClausesNamed(sql', "ID") = 1
            /\ IF IndexesOf(columns, "ID") = {}
               THEN /\ \A i \in IndexesOf(columns', "ID") : columns'[i] = InjectedID
                    /\ Contains(sql', "ID CHAR(40) NOT NULL PRIMARY UNIQUE KEY")
               ELSE /\ IndexesOf(columns', "ID") = IndexesOf(columns, "ID")
                    /\ \A i \in IndexesOf(columns, "ID") :
                          /\ columns'[i] = columns[i]
                          /\ Contains(sql', Clause(columns[i]))
      ]_vars

\* a build succeeded with the ID column of the callback, made UNSIGNED by a
\* mutator, which the injection never produces
C4_Witness ==
    /\ pc = "returned"
    /\ err = NilError
    /\ \E i \in IndexesOf(columns, "ID") : columns[i].unsigned
    /\ ClausesNamed(sql, "ID") = 1

\* ------------------------------------------------------------------------
\* C5: a successful build has exactly one column for each of CreatedAt,
\* UpdatedAt and DeletedAt: a missing one is injected as DATETIME, NOT NULL
\* for CreatedAt and UpdatedAt and with no flag for DeletedAt; one the
\* callback defined keeps its type and flags, each name on its own.
\* ------------------------------------------------------------------------
AuditNames == { "CreatedAt", "UpdatedAt", "DeletedAt" }

InjectedAudit(name) ==
    [ name |-> name, dataType |-> "DATETIME", notNull |-> (name # "DeletedAt"),
      autoIncrement |-> FALSE, unique |-> FALSE, primary |-> FALSE,
      unsigned |-> FALSE ]

C5_ExactlyOneOfEachAuditColumn ==
    [][ (BuildTableFinish /\ Len(columns) > 0) =>
            \A n \in AuditNames :
                /\ Cardinality(IndexesOf(columns', n)) = 1
                /\ ClausesNamed(sql', n) = 1
                /\ IF IndexesOf(columns, n) = {}
                   THEN /\ \A i \in IndexesOf(columns', n) : columns'[i] = InjectedAudit(n)
                        /\ Contains(sql', n \o " DATETIME")
                        /\ Contains(sql', n \o " DATETIME NOT NULL") <=> (n # "DeletedAt")
                   ELSE /\ IndexesOf(columns', n) = IndexesOf(columns, n)
                        /\ \A i \in IndexesOf(columns, n) :
                              /\ columns'[i] = columns[i]
                              /\ Contains(sql', Clause(columns[i]))
      ]_vars

\* a build succeeded where the callback defined CreatedAt as INTEGER and
\* nullable, and UpdatedAt and DeletedAt were injected
C5_Witness ==
    /\ pc = "returned"
    /\ err = NilError
    /\ \E i \in IndexesOf(columns, "CreatedAt") :
          columns[i].dataType = "INTEGER" /\ ~columns[i].notNull
    /\ \E i \in IndexesOf(columns, "UpdatedAt") : columns[i] = InjectedAudit("UpdatedAt")
    /\ \E i \in IndexesOf(columns, "DeletedAt") : columns[i] = InjectedAudit("DeletedAt")

\* ------------------------------------------------------------------------
\* C6: creating a column under a name the table already has leaves the
\* columns as they are (count, order, type and current flags), logs exactly
\* one "already defined" warning, and the build still succeeds.
\* ------------------------------------------------------------------------

\* number of entries of the sequence that contain the piece
CountContaining(seq, piece) ==
    Cardinality({ i \in 1..Len(seq) : Contains(seq[i], piece) })

\* the callback calls a factory or MakeColumn with the name
Creates(n) ==
    \/ n = "ID" /\ CallID
    \/ CallInteger(n)
    \/ \E f \in FlagValues : CallMakeColumn(n, "TEXT", f)
    \/ \E l \in FlagBitLengths : CallBit(n, l)

C6_DuplicateCreationIsSkipped ==
    [][ /\ \A n \in FlagColNames :
              (hasColumn(Tb, n) /\ Creates(n)) =>
                  /\ columns' = columns
                  /\ LogsExtended
                  /\ CountOf(NewLogs, "column " \o n \o " already defined in table " \o tableName) = 1
                  /\ CountContaining(NewLogs, "already defined") = 1
                  /\ pc' = "callback"
                  /\ err' = NilError
        /\ (BuildTableFinish /\ CountContaining(logs, "already defined") > 0) =>
              (err' = NilError /\ pc' = "returned")
      ]_vars

\* a build succeeded after a second creation of col1 was skipped: col1 is
\* still the nullable TEXT column, made UNSIGNED by a mutator
C6_Witness ==
    /\ pc = "returned"
    /\ err = NilError
    /\ CountOf(logs, DuplicateWarning("col1", tableName)) = 1
    /\ \E i \in IndexesOf(columns, "col1") :
          /\ columns[i].dataType = "TEXT"
          /\ columns[i].unsigned
          /\ ~columns[i].notNull
    /\ ClausesNamed(sql, "col1") = 1

\* ------------------------------------------------------------------------
\* C7: a flag mutator called with a name that is not a column changes no
\* column, logs "column X not found" and raises no error; a system column
\* injected after such a call is the standard one.
\* ------------------------------------------------------------------------
SystemNames == { "ID" } \cup AuditNames

Injected(name) == IF name = "ID" THEN InjectedID ELSE InjectedAudit(name)

\* the callback calls one of the five mutators with the name
Mutates(n) ==
    \/ CallNotNull(n)
    \/ CallNullable(n)
    \/ CallAutoIncrement(n)
    \/ CallUnique(n)
    \/ CallUnsigned(n)

C7_MutatorOnMissingColumn ==
    [][ /\ \A n \in ColNames :
              (~hasColumn(Tb, n) /\ Mutates(n)) =>
                  /\ columns' = columns
                  /\ logs' = Append(logs, "column " \o n \o " not found")
                  /\ pc' = "callback"
                  /\ err' = NilError
                  /\ sql' = sql
        /\ (BuildTableFinish /\ Len(columns) > 0) =>
              \A n \in SystemNames :
                  (IndexesOf(columns, n) = {} /\ CountOf(logs, NotFoundWarning(n)) > 0) =>
                      \A i \in IndexesOf(columns', n) : columns'[i] = Injected(n)
      ]_vars

\* a build succeeded where a mutator had been called for DeletedAt before
\* the column existed, and the injected DeletedAt has no flag
C7_Witness ==
    /\ pc = "returned"
    /\ err = NilError
    /\ CountOf(logs, NotFoundWarning("DeletedAt")) = 1
    /\ CountContaining(logs, "already defined") = 0
    /\ \E i \in IndexesOf(columns, "DeletedAt") : columns[i] = InjectedAudit("DeletedAt")

\* ------------------------------------------------------------------------
\* C8: a flag mutator called with the name of an existing column sets one
\* attribute of that column (NotNull: notNull true, Nullable: notNull false,
\* AutoIncrement, Unique, Unsigned: their attribute true) and changes nothing
\* else; it logs nothing, and repeating it changes nothing.
\* ------------------------------------------------------------------------
ColumnFields ==
    { "name", "dataType", "notNull", "autoIncrement", "unique", "primary", "unsigned" }

\* the step set the attribute of the column named n and nothing else
SetsOnly(n, field, value) ==
    /\ Cardinality(IndexesOf(columns, n)) = 1
    /\ Len(columns') = Len(columns)
    /\ \A i \in 1..Len(columns) :
          IF columns[i].name = n
          THEN /\ columns'[i][field] = value
               /\ \A f \in ColumnFields \ {field} : columns'[i][f] = columns[i][f]
               /\ (columns[i][field] = value) => (columns' = columns)
          ELSE columns'[i] = columns[i]
    /\ logs' = logs
    /\ pc' = "callback"
    /\ err' = NilError
    /\ sql' = sql

C8_MutatorOnExistingColumn ==
    [][ \A n \in FlagColNames :
            hasColumn(Tb, n) =>
                /\ CallNotNull(n) => SetsOnly(n, "notNull", TRUE)
                /\ CallNullable(n) => SetsOnly(n, "notNull", FALSE)
                /\ CallAutoIncrement(n) => SetsOnly(n, "autoIncrement", TRUE)
                /\ CallUnique(n) => SetsOnly(n, "unique", TRUE)
                /\ CallUnsigned(n) => SetsOnly(n, "unsigned", TRUE)
      ]_vars

\* the callback created col1 with Integer (NOT NULL), then made it nullable
\* and unsigned, with no warning
C8_Witness ==
    /\ pc = "callback"
    /\ steps = 3
    /\ logs = <<>>
    /\ Len(columns) = 1
    /\ columns[1].name = "col1"
    /\ columns[1].dataType = "INTEGER"
    /\ ~columns[1].notNull
    /\ columns[1].unsigned
    /\ ~columns[1].unique

\* ------------------------------------------------------------------------
\* C9: Bit(name, length) creates BIT(n) with n = 1 for length < 1, n = 64
\* for length > 64 and n = length otherwise; it logs exactly one warning
\* naming the length and the bound when the length is out of range, none
\* otherwise, and never makes the build fail.
\* ------------------------------------------------------------------------
ClampedLength(length) ==
    IF length < 1 THEN 1 ELSE IF length > 64 THEN 64 ELSE length

\* the messages of the step that are about a Bit length
LengthWarnings ==
    { i \in 1..Len(NewLogs) : Contains(NewLogs[i], "passed to Bit column") }

C9_BitLengthClamped ==
    [][ \A n \in FlagColNames, l \in BitLengths :
            CallBit(n, l) =>
                /\ ClampedLength(l) \in 1..64
                /\ IF hasColumn(Tb, n)
                   THEN columns' = columns
                   ELSE /\ Len(columns') = Len(columns) + 1
                        /\ SubSeq(columns', 1, Len(columns)) = columns
                        /\ columns'[Len(columns')].name = n
                        /\ columns'[Len(columns')].dataType
                              = "BIT(" \o ToString(ClampedLength(l)) \o ")"
                /\ LogsExtended
                /\ Cardinality(LengthWarnings) = (IF l < 1 \/ l > 64 THEN 1 ELSE 0)
                /\ \A i \in LengthWarnings :
                      /\ Contains(NewLogs[i], "(" \o ToString(l) \o ")")
                      /\ Contains(NewLogs[i], IF l < 1 THEN "(1)" ELSE "(64)")
                /\ pc' = "callback"
                /\ err' = NilError
      ]_vars

\* a build succeeded with col1 created by Bit(col1, 70): BIT(64), one warning
C9_Witness ==
    /\ pc = "returned"
    /\ err = NilError
    /\ CountOf(logs, BitAboveWarning(70)) = 1
    /\ \E i \in IndexesOf(columns, "col1") : columns[i].dataType = "BIT(64)"
    /\ Contains(sql, "col1 BIT(64) NOT NULL")

\* ------------------------------------------------------------------------
\* C10: when BuildTable has returned, the callback has been invoked exactly
\* once if the table name is valid and not at all if it is invalid; it is
\* never invoked a second time.
\* ------------------------------------------------------------------------
C10_CallbackInvokedOnceIffValid ==
    /\ calls <= 1
    /\ pc = "returned" => (calls = IF IdentifierName(tableName) THEN 1 ELSE 0)

\* ------------------------------------------------------------------------
\* C11: at every moment of a build, during the callback and after the
\* injection of the system columns, no two columns of the table have the
\* same name.
\* ------------------------------------------------------------------------
C11_ColumnNamesUnique ==
    \A i, j \in 1..Len(columns) :
        (columns[i].name = columns[j].name) => (i = j)

\* a build was finished with five columns after a creation and an injection
\* had been skipped as duplicates
C11_Witness ==
    /\ pc = "returned"
    /\ err = NilError
    /\ Len(columns) = 5
    /\ CountContaining(logs, "already defined") >= 2

\* ------------------------------------------------------------------------
\* C12: the clauses are rendered in insertion order: the columns of the
\* callback in the order they were first created, then the system columns
\* the callback left out, in the order ID, CreatedAt, UpdatedAt, DeletedAt.
\* ------------------------------------------------------------------------

\* the names of the columns, in order
NamesOf(cols) == [i \in 1..Len(cols) |-> cols[i].name]

\* the system columns in the order of their injection
SystemOrder == << "ID", "CreatedAt", "UpdatedAt", "DeletedAt" >>

RECURSIVE MissingFrom(_, _)
\* the names of the sequence that the columns do not have, in order
MissingFrom(names, cols) ==
    IF names = <<>> THEN <<>>
    ELSE (IF IndexesOf(cols, Head(names)) = {} THEN << Head(names) >> ELSE <<>>)
            \o MissingFrom(Tail(names), cols)

\* the place in the SQL where the clause of the column starts
ClauseStart(s, name) ==
    CHOOSE i \in 1..Len(s) :
        \/ SubSeq(s, i, i + Len(name) + 1) = "(" \o name \o " "
        \/ SubSeq(s, i, i + Len(name) + 1) = "," \o name \o " "

C12_InsertionOrder ==
    [][ /\ (pc = "callback" /\ pc' = "callback") =>
              /\ Len(columns') >= Len(columns)
              /\ SubSeq(NamesOf(columns'), 1, Len(columns)) = NamesOf(columns)
        /\ (BuildTableFinish /\ Len(columns) > 0) =>
              /\ NamesOf(columns') = NamesOf(columns) \o MissingFrom(SystemOrder, columns)
              /\ \A i \in 1..Len(columns') : ClausesNamed(sql', columns'[i].name) = 1
              /\ \A i \in 1..(Len(columns') - 1) :
                    ClauseStart(sql', columns'[i].name)
                        < ClauseStart(sql', columns'[i + 1].name)
      ]_vars

\* the callback created UpdatedAt and then col1; ID, CreatedAt and
\* DeletedAt follow them
C12_Witness ==
    /\ pc = "returned"
    /\ err = NilError
    /\ NamesOf(columns) = << "UpdatedAt", "col1", "ID", "CreatedAt", "DeletedAt" >>
    /\ ClauseStart(sql, "col1") < ClauseStart(sql, "ID")

\* ------------------------------------------------------------------------
\* C13: the clause of a column is its name, a space, UNSIGNED and a space
\* when unsigned, the data type, a space, NOT NULL and a space when notNull,
\* AUTO_INCREMENT and a space when autoIncrement, then the keys fragment.
\* ------------------------------------------------------------------------

\* the text of the i-th clause of the SQL of the columns
ClauseText(s, cols, i) ==
    SubSeq(s, ClauseStart(s, cols[i].name) + 1,
           (IF i = Len(cols) THEN Len(s) ELSE ClauseStart(s, cols[i + 1].name)) - 1)

ExpectedClause(col, keys) ==
    col.name \o " "
        \o (IF col.unsigned THEN "UNSIGNED " ELSE "")
        \o col.dataType \o " "
        \o (IF col.notNull THEN "NOT NULL " ELSE "")
        \o (IF col.autoIncrement THEN "AUTO_INCREMENT " ELSE "")
        \o keys

C13_ClauseComposition ==
    [][ (BuildTableFinish /\ Len(columns) > 0) =>
            \A i \in 1..Len(columns') :
                ClauseText(sql', columns', i) = ExpectedClause(columns'[i], Keys(columns'[i]))
      ]_vars

\* col1 was rendered with all five flags set
C13_Witness ==
    /\ pc = "returned"
    /\ err = NilError
    /\ Contains(sql, "(col1 UNSIGNED TEXT NOT NULL AUTO_INCREMENT PRIMARY UNIQUE KEY,")

\* ------------------------------------------------------------------------
\* C14: the keys fragment is PRIMARY KEY when only primary is set, UNIQUE
\* KEY when only unique is set, PRIMARY UNIQUE KEY when both are set, and
\* empty when neither is set.
\* ------------------------------------------------------------------------
HasSuffix(s, suffix) ==
    /\ Len(s) >= Len(suffix)
    /\ SubSeq(s, Len(s) - Len(suffix) + 1, Len(s)) = suffix

ExpectedKeys(col) ==
    CASE col.primary /\ col.unique -> "PRIMARY UNIQUE KEY"
      [] col.primary /\ ~col.unique -> "PRIMARY KEY"
      [] ~col.primary /\ col.unique -> "UNIQUE KEY"
      [] OTHER -> ""

C14_KeysFragment ==
    [][ (BuildTableFinish /\ Len(columns) > 0) =>
            \A i \in 1..Len(columns') :
                LET c == ClauseText(sql', columns', i)
                    k == ExpectedKeys(columns'[i])
                IN  /\ HasSuffix(c, " " \o k)
                    /\ Occurrences(c, "KEY") = (IF k = "" THEN 0 ELSE 1)
                    /\ Occurrences(c, "PRIMARY") = (IF columns'[i].primary THEN 1 ELSE 0)
                    /\ Occurrences(c, "UNIQUE") = (IF columns'[i].unique THEN 1 ELSE 0)
      ]_vars

\* col1 was rendered with primary alone
C14_Witness ==
    /\ pc = "returned"
    /\ err = NilError
    /\ \E i \in IndexesOf(columns, "col1") : columns[i].primary /\ ~columns[i].unique
    /\ Contains(sql, "(col1 TEXT PRIMARY KEY,")

\* ------------------------------------------------------------------------
\* C15: the SQL of a successful build is CREATE TABLE IF NOT EXISTS
\* <table>( then the clauses of all columns of the final table, separated
\* by single commas, then ): no comma after the last clause, no clause
\* dropped or cut.
\* ------------------------------------------------------------------------
RECURSIVE JoinClauses(_)
JoinClauses(cols) ==
    IF Len(cols) = 1
    THEN ExpectedClause(cols[1], ExpectedKeys(cols[1]))
    ELSE ExpectedClause(cols[1], ExpectedKeys(cols[1])) \o "," \o JoinClauses(Tail(cols))

\* the SQL after CREATE TABLE IF NOT EXISTS <table>
AfterTableName(s) ==
    SubSeq(s, Len("CREATE TABLE IF NOT EXISTS " \o tableName) + 1, Len(s))

C15_StatementShape ==
    [][ (BuildTableFinish /\ Len(columns) > 0) =>
            /\ sql' = "CREATE TABLE IF NOT EXISTS " \o tableName \o "("
                        \o JoinClauses(columns') \o ")"
            /\ Occurrences(AfterTableName(sql'), ",") = Len(columns') - 1
            /\ ~Contains(sql', ",)")
      ]_vars

\* a build of five columns ended with the nullable DeletedAt clause, whose
\* last byte is a space
C15_Witness ==
    /\ pc = "returned"
    /\ err = NilError
    /\ Len(columns) = 5
    /\ HasSuffix(sql, ",DeletedAt DATETIME )")

\* ------------------------------------------------------------------------
\* C18: Enum and Set create a column whose type is ENUM( or SET(, the
\* values in the given order, each in single quotes and unchanged, separated
\* by a comma and a space with none after the last, and ); with no value the
\* type is ENUM() or SET(); the column is NOT NULL and has no other flag.
\* ------------------------------------------------------------------------
RECURSIVE QuotedList(_)
QuotedList(values) ==
    IF values = <<>> THEN ""
    ELSE IF Len(values) = 1 THEN "'" \o values[1] \o "'"
    ELSE "'" \o values[1] \o "', " \o QuotedList(Tail(values))

\* the step appended one column of the name and the type, NOT NULL only
AppendsNotNullColumn(name, dataType) ==
    columns' = Append(columns,
        [ name |-> name, dataType |-> dataType, notNull |-> TRUE,
          autoIncrement |-> FALSE, unique |-> FALSE, primary |-> FALSE,
          unsigned |-> FALSE ])

C18_EnumAndSetTypes ==
    [][ /\ \A vs \in SeqsUpTo(EnumValueSet, MaxValues) :
              /\ (CallEnum("col1", vs) /\ ~hasColumn(Tb, "col1")) =>
                    AppendsNotNullColumn("col1", "ENUM(" \o QuotedList(vs) \o ")")
              /\ (CallSet("col1", vs) /\ ~hasColumn(Tb, "col1")) =>
                    AppendsNotNullColumn("col1", "SET(" \o QuotedList(vs) \o ")")
        /\ (CallEnum("col1", <<>>) /\ ~hasColumn(Tb, "col1")) =>
              (columns'[Len(columns')].dataType = "ENUM()")
        /\ (CallSet("col1", <<>>) /\ ~hasColumn(Tb, "col1")) =>
              (columns'[Len(columns')].dataType = "SET()")
        /\ (BuildTableFinish /\ Len(columns) > 0) =>
              Contains(sql', "(col1 " \o columns[1].dataType \o " NOT NULL ,")
      ]_vars

\* a build rendered Set(col1, b'c, a) with the quote left as it is
C18_Witness ==
    /\ pc = "returned"
    /\ err = NilError
    /\ Contains(sql, "(col1 SET('b'c', 'a') NOT NULL ,")

\* ------------------------------------------------------------------------
\* C19: every type factory but ID creates its column with the type fragment
\* of its logical type and NOT NULL as the only flag; ID creates CHAR(40)
\* with notNull, unique and primary; Numeric creates what Decimal creates.
\* ------------------------------------------------------------------------

\* the fragment of each logical type that takes a name only
KeywordFragment ==
    [ Tinyint |-> "TINYINT", Smallint |-> "SMALLINT", Mediumint |-> "MEDIUMINT",
      Integer |-> "INTEGER", Bigint |-> "BIGINT", Float |-> "FLOAT",
      Double |-> "DOUBLE", Date |-> "DATE", DateTime |-> "DATETIME",
      Timestamp |-> "TIMESTAMP", Time |-> "TIME", Year |-> "YEAR",
      Tinyblob |-> "TINYBLOB", Blob |-> "BLOB", Mediumblob |-> "MEDIUMBLOB",
      Longblob |-> "LONGBLOB", Tinytext |-> "TINYTEXT", Text |-> "TEXT",
      Mediumtext |-> "MEDIUMTEXT", Longtext |-> "LONGTEXT" ]

\* the type keyword of each logical type that takes a length
SizedFragment ==
    [ Char |-> "CHAR", Varchar |-> "VARCHAR", Binary |-> "BINARY",
      Varbinary |-> "VARBINARY" ]

OwnWarnings(p) ==
    LET own == SelectSeq(mlogs, LAMBDA e : e.by = p)
    IN  [ i \in 1..Len(own) |-> own[i].text ]

C16_Deterministic ==
    /\ \A p, q \in Invocations :
          ( /\ inv[p].pc = "returned"
            /\ inv[q].pc = "returned"
            /\ inv[p].tableName = inv[q].tableName
            /\ inv[p].trace = inv[q].trace ) =>
              /\ inv[p].sql = inv[q].sql
              /\ inv[p].err = inv[q].err
              /\ OwnWarnings(p) = OwnWarnings(q)
    /\ \A p \in Invocations :
          (inv[p].pc = "callback" /\ inv[p].steps = 0) => inv[p].columns = <<>>

\* the second invocation started after the first returned its statement,
\* made the same calls, one of them with a warning, and returned as well
C16_Witness ==
    /\ inv[1].pc = "returned"
    /\ inv[2].pc = "returned"
    /\ inv[2].after = { 1 }
    /\ inv[1].tableName = "test"
    /\ inv[2].tableName = "test"
    /\ inv[1].trace = inv[2].trace
    /\ Len(inv[1].trace) = 2
    /\ inv[1].err = NilError
    /\ Len(OwnWarnings(2)) = 1

\* ------------------------------------------------------------------------
\* C17: with the steps of several invocations interleaved in any order,
\* a step of one invocation changes nothing of another, and each invocation
\* returns the SQL and the error (and emits the warnings) it returns when it
\* runs alone.
\* ------------------------------------------------------------------------
RECURSIVE FoldCalls(_, _)
FoldCalls(t, trace) ==
    IF trace = <<>> THEN t
    ELSE FoldCalls(Apply(Head(trace), t), Tail(trace))

\* BuildTable run alone with the name and a callback making the calls
RunAlone(name, trace) ==
    IF ~validName(name)
    THEN [ sql |-> "", err |-> NewError("table name " \o name \o " is invalid"),
           logs |-> <<>> ]
    ELSE LET t == FoldCalls(NewTable(name), trace)
         IN  IF Len(t.columns) = 0
             THEN [ sql |-> "", err |-> NewError("builder method is empty"),
                    logs |-> t.logs ]
             ELSE LET u == Timestamps(ID(t))
                  IN  [ sql |-> toSQL(u), err |-> NilError, logs |-> u.logs ]

C17_NoCrossTalk ==
    [][ /\ \A p \in Invocations, o \in MultiOps :
              MultiSurface(p, o) =>
                  \A q \in Invocations \ { p } : inv'[q] = inv[q]
        /\ \A p \in Invocations :
              MultiBuildTableFinish(p) =>
                  /\ \A q \in Invocations \ { p } : inv'[q] = inv[q]
                  /\ inv'[p].pc = "returned"
                  /\ [ sql |-> inv'[p].sql, err |-> inv'[p].err ] =
                     [ sql |-> RunAlone(inv[p].tableName, inv[p].trace).sql,
                       err |-> RunAlone(inv[p].tableName, inv[p].trace).err ]
      ]_vars

\* both invocations returned a statement, not the same one, and their
\* warnings reached the logger in the order first, second, first
C17_Witness ==
    /\ inv[1].pc = "returned"
    /\ inv[2].pc = "returned"
    /\ inv[1].err = NilError
    /\ inv[2].err = NilError
    /\ inv[1].sql # inv[2].sql
    /\ inv[1].sql = RunAlone(inv[1].tableName, inv[1].trace).sql
    /\ \E i, j, k \in 1..Len(mlogs) :
          /\ i < j /\ j < k
          /\ mlogs[i].by = 1 /\ mlogs[j].by = 2 /\ mlogs[k].by = 1

\* ------------------------------------------------------------------------
\* the server: registration of routes and dispatch of a request
\* ------------------------------------------------------------------------

\* s.routes = append(s.routes, &route{...})
AddRoute(rs, method, path, handler) ==
    Append(rs, [ method |-> method, path |-> path, handler |-> handler ])

\* a handler handed to Get, Post, Put, Patch or Delete as it is
PlainHandler(h) == [ wrap |-> "plain", target |-> h ]

\* rootResponse(controller.<method>)
rootResponse(controller, method) ==
    [ wrap |-> "root", target |-> controller \o "." \o method ]

\* parameterResponse(controller.<method>)
parameterResponse(controller, method) ==
    [ wrap |-> "param", target |-> controller \o "." \o method ]

\* the routes registered by calls of Resource, and one by one
NumResources ==
    Cardinality({ i \in 1..Len(routes) : routes[i].handler.wrap = "root"
                                           /\ routes[i].method = "GET" })

NumSingles == Cardinality({ i \in 1..Len(routes) : routes[i].handler.wrap = "plain" })

Register(method, path, h) ==
    /\ NumSingles < MaxSingles
    /\ routes' = AddRoute(routes, method, path, PlainHandler(h))
    /\ UNCHANGED <<dbSet, served, multiVars>>
    /\ UNCHANGED <<pc, tableName, columns, logs, calls, steps, sql, err, ormVars>>

Get(path, h) == Register("GET", path, h)

Post(path, h) == Register("POST", path, h)

Put(path, h) == Register("PUT", path, h)

Patch(path, h) == Register("PATCH", path, h)

Delete(path, h) == Register("DELETE", path, h)

\* Resource with the handlers of PUT and PATCH on the path without the id
ResourceUpdateOnRoot(path, controller) ==
    /\ NumResources < MaxResources
    /\ dbSet' = dbSet \cup { controller }
    /\ LET pathWithId == path \o "/:id"
           r1 == AddRoute(routes, "GET", path, rootResponse(controller, "Index"))
           r2 == AddRoute(r1, "POST", path, rootResponse(controller, "Create"))
           r3 == AddRoute(r2, "GET", pathWithId, parameterResponse(controller, "Read"))
           r4 == AddRoute(r3, "PUT", path, parameterResponse(controller, "Update"))
           r5 == AddRoute(r4, "PATCH", path, parameterResponse(controller, "Update"))
           r6 == AddRoute(r5, "DELETE", pathWithId, parameterResponse(controller, "Delete"))
       IN  routes' = r6
    /\ UNCHANGED <<served, multiVars>>
    /\ UNCHANGED <<pc, tableName, columns, logs, calls, steps, sql, err, ormVars>>

Resource(path, controller) ==
    /\ NumResources < MaxResources
    /\ dbSet' = dbSet \cup { controller }
    /\ LET pathWithId == path \o "/:id"
           r1 == AddRoute(routes, "GET", path, rootResponse(controller, "Index"))
           r2 == AddRoute(r1, "POST", path, rootResponse(controller, "Create"))
           r3 == AddRoute(r2, "GET", pathWithId, parameterResponse(controller, "Read"))
           r4 == AddRoute(r3, "PUT", pathWithId, parameterResponse(controller, "Update"))
           r5 == AddRoute(r4, "PATCH", pathWithId, parameterResponse(controller, "Update"))
           r6 == AddRoute(r5, "DELETE", pathWithId, parameterResponse(controller, "Delete"))
       IN  routes' = r6
    /\ UNCHANGED <<served, multiVars>>
    /\ UNCHANGED <<pc, tableName, columns, logs, calls, steps, sql, err, ormVars>>

\* the value of a decimal digit
DigitValue(c) == CHOOSE n \in 0..9 : ToString(n) = c

RECURSIVE DigitsValue(_, _)
\* the digits of s read from the left onto the value so far, or -1
DigitsValue(s, acc) ==
    IF s = "" THEN acc
    ELSE IF CharAt(s, 1) \notin Digits THEN -1
    ELSE DigitsValue(SubSeq(s, 2, Len(s)), acc * 10 + DigitValue(CharAt(s, 1)))

\* strconv.Atoi: an optional sign and at least one decimal digit
Atoi(s) ==
    LET signed == Len(s) > 0 /\ CharAt(s, 1) \in { "+", "-" }
        body == IF signed THEN SubSeq(s, 2, Len(s)) ELSE s
        n == IF body = "" THEN -1 ELSE DigitsValue(body, 0)
    IN  IF n = -1 THEN [ ok |-> FALSE, value |-> 0 ]
        ELSE [ ok |-> TRUE,
               value |-> IF signed /\ CharAt(s, 1) = "-" THEN 0 - n ELSE n ]

\* the router: whether the request path fits the path of the route, and
\* the text standing where the route has :id
MatchPath(pattern, reqPath) ==
    IF Len(pattern) >= 4 /\ SubSeq(pattern, Len(pattern) - 3, Len(pattern)) = "/:id"
    THEN LET base == SubSeq(pattern, 1, Len(pattern) - 3)
             rest == SubSeq(reqPath, Len(base) + 1, Len(reqPath))
         IN  [ ok |-> /\ Len(reqPath) > Len(base)
                      /\ SubSeq(reqPath, 1, Len(base)) = base
                      /\ \A i \in 1..Len(rest) : CharAt(rest, i) # "/",
               id |-> rest ]
    ELSE [ ok |-> pattern = reqPath, id |-> "" ]

\* router.Handle refuses a second handler for a method and a path
HandleConflict ==
    \E i, j \in 1..Len(routes) :
        /\ i < j
        /\ routes[i].method = routes[j].method
        /\ routes[i].path = routes[j].path

\* what came of a request that got no response: the route that took it
\* and the handler or controller method that ran
Outcome(kind, route, target, id, status) ==
    [ outcome |-> kind, route |-> route, target |-> target, id |-> id,
      status |-> status ]

\* a nil interface value in the Data field
NilData == <<>>

\* what a controller method may return: a result with a nil error, an
\* error, an error beside a result, a result encoding/json cannot encode
ControllerReturns ==
    { [ res |-> << "result" >>, err |-> NilError ],
      [ res |-> NilData, err |-> NewError("failed") ],
      [ res |-> << "partial" >>, err |-> NewError("failed") ],
      [ res |-> << "chan" >>, err |-> NilError ] }

\* the results json.NewEncoder(rw).Encode returns an error for
Unencodable == { << "chan" >> }

\* the Response struct with its zero values
Response == [ Status |-> FALSE, Data |-> NilData, Error |-> "" ]

\* the error of strconv.Atoi
AtoiError(s) == NewError("strconv.Atoi: parsing \"" \o s \o "\": invalid syntax")

\* sendResponse: the header, then the encoding, which panics on an error
sendResponse(route, target, id, ret, response) ==
    IF response.Data \in Unencodable
    THEN [ outcome |-> "panic", route |-> route, target |-> target, id |-> id,
           status |-> FALSE, returned |-> ret,
           contentType |-> "application/json", body |-> NilData ]
    ELSE [ outcome |-> "response", route |-> route, target |-> target, id |-> id,
           status |-> response.Status, returned |-> ret,
           contentType |-> "application/json", body |-> response ]

\* no controller method was called
NotCalled == [ res |-> NilData, err |-> NilError, called |-> FALSE ]

Called(ret) == [ res |-> ret.res, err |-> ret.err, called |-> TRUE ]

\* the function rootResponse returns, run for the route on a request, with
\* what the controller method returns
rootHandle(route, h, ret) ==
    IF ret.err # NilError
    THEN sendResponse(route, h.target, 0, Called(ret),
             [ Response EXCEPT !.Error = ErrorText(ret.err), !.Status = FALSE ])
    ELSE sendResponse(route, h.target, 0, Called(ret),
             [ Response EXCEPT !.Data = ret.res, !.Status = TRUE ])

\* parameterHandle calling the controller method with 0 for an id it could
\* not parse
parameterHandleIgnoresParseError(route, h, rawId, ret) ==
    LET id == Atoi(rawId)
    IN  IF ret.err # NilError
        THEN sendResponse(route, h.target, id.value, Called(ret),
                 [ Response EXCEPT !.Error = ErrorText(ret.err), !.Status = FALSE ])
        ELSE sendResponse(route, h.target, id.value, Called(ret),
                 [ Response EXCEPT !.Data = ret.res, !.Status = TRUE ])

\* the function parameterResponse returns, run for the route on a request
\* with the text at :id, with what the controller method returns if called
parameterHandle(route, h, rawId, ret) ==
    LET id == Atoi(rawId)
    IN  IF ~id.ok
        THEN sendResponse(route, "", 0, NotCalled,
                 [ Response EXCEPT !.Error = ErrorText(AtoiError(rawId)),
                                   !.Status = FALSE ])
        ELSE IF ret.err # NilError
        THEN sendResponse(route, h.target, id.value, Called(ret),
                 [ Response EXCEPT !.Error = ErrorText(ret.err), !.Status = FALSE ])
        ELSE sendResponse(route, h.target, id.value, Called(ret),
                 [ Response EXCEPT !.Data = ret.res, !.Status = TRUE ])

\* BuildHandler() and ServeHTTP of the router it returns
ServeHTTP(method, reqPath) ==
    /\ Len(routes) > 0
    /\ IF HandleConflict
       THEN served' = Outcome("panic", 0, "", 0, FALSE)
       ELSE LET hit == { i \in 1..Len(routes) :
                           /\ routes[i].method = method
                           /\ MatchPath(routes[i].path, reqPath).ok }
            IN  IF hit = {}
                THEN served' = Outcome("notfound", 0, "", 0, FALSE)
                ELSE \E i \in hit :
                       LET h == routes[i].handler
                           rawId == MatchPath(routes[i].path, reqPath).id
                       IN  CASE h.wrap = "plain" ->
                                  served' = Outcome("handled", i, h.target, 0, TRUE)
                             [] h.wrap = "root" ->
                                  \E ret \in ControllerReturns :
                                      served' = rootHandle(i, h, ret)
                             [] h.wrap = "param" ->
                                  \E ret \in ControllerReturns :
                                      served' = parameterHandle(i, h, rawId, ret)
    /\ UNCHANGED <<routes, dbSet, multiVars>>
    /\ UNCHANGED <<pc, tableName, columns, logs, calls, steps, sql, err, ormVars>>

NextServer ==
    \/ \E p \in RoutePaths, h \in PlainHandlers : Get(p, h)
    \/ \E p \in RoutePaths, h \in PlainHandlers : Post(p, h)
    \/ \E p \in RoutePaths, h \in PlainHandlers : Put(p, h)
    \/ \E p \in RoutePaths, h \in PlainHandlers : Patch(p, h)
    \/ \E p \in RoutePaths, h \in PlainHandlers : Delete(p, h)
    \/ \E p \in RoutePaths, c \in Controllers : Resource(p, c)
    \/ \E m \in Methods, rp \in RequestPaths : ServeHTTP(m, rp)

InitServer == Init /\ tableName = "test"

SpecServer == InitServer /\ [][NextServer]_vars

\* ------------------------------------------------------------------------
\* C20: Resource(path, controller) registers exactly six routes, GET path
\* to Index, POST path to Create, GET path/:id to Read, PUT path/:id and
\* PATCH path/:id to Update, DELETE path/:id to Delete, after the routes
\* registered earlier, which keep their order; a request is dispatched to
\* the controller method of the route with its method and path and to no
\* other.
\* ------------------------------------------------------------------------

\* the six routes of a resource, as pairs of a route and a controller method
SixRoutes(path, c) ==
    << [ method |-> "GET",    path |-> path,            to |-> c \o ".Index" ],
       [ method |-> "POST",   path |-> path,            to |-> c \o ".Create" ],
       [ method |-> "GET",    path |-> path \o "/:id",  to |-> c \o ".Read" ],
       [ method |-> "PUT",    path |-> path \o "/:id",  to |-> c \o ".Update" ],
       [ method |-> "PATCH",  path |-> path \o "/:id",  to |-> c \o ".Update" ],
       [ method |-> "DELETE", path |-> path \o "/:id",  to |-> c \o ".Delete" ] >>

\* the step put the six routes, and nothing else, behind the earlier routes
RegistersSix(path, c) ==
    /\ Len(routes') = Len(routes) + 6
    /\ SubSeq(routes', 1, Len(routes)) = routes
    /\ \A k \in 1..6 :
          LET r == routes'[Len(routes) + k]
          IN  /\ r.method = SixRoutes(path, c)[k].method
              /\ r.path = SixRoutes(path, c)[k].path
              /\ r.handler.target = SixRoutes(path, c)[k].to

\* the step put one route behind the earlier routes
RegistersOne ==
    /\ Len(routes') = Len(routes) + 1
    /\ SubSeq(routes', 1, Len(routes)) = routes

Registration ==
    /\ \A p \in RoutePaths, c \in Controllers : Resource(p, c) => RegistersSix(p, c)
    /\ \A p \in RoutePaths, h \in PlainHandlers :
          (Get(p, h) \/ Post(p, h) \/ Put(p, h) \/ Patch(p, h) \/ Delete(p, h))
              => RegistersOne

\* the request path is the path of the route, with any text without a
\* slash where the route has :id
Fits(route, reqPath) ==
    \/ route.path = reqPath
    \/ /\ HasSuffix(route.path, "/:id")
       /\ LET base == SubSeq(route.path, 1, Len(route.path) - 3)
          IN  /\ HasPrefix(reqPath, base)
              /\ Len(reqPath) > Len(base)
              /\ ~Contains(SubSeq(reqPath, Len(base) + 1, Len(reqPath)), "/")

\* the text standing where the route has :id
IdText(route, reqPath) == SubSeq(reqPath, Len(route.path) - 2, Len(reqPath))

\* a decimal integer: digits, with or without a sign before them
IsInteger(s) ==
    LET body == IF HasPrefix(s, "+") \/ HasPrefix(s, "-")
                THEN SubSeq(s, 2, Len(s)) ELSE s
    IN  /\ Len(body) > 0
        /\ \A i \in 1..Len(body) : CharAt(body, i) \in Digits

SameMethodAndPath ==
    \E i, j \in 1..Len(routes) :
        i # j /\ routes[i].method = routes[j].method /\ routes[i].path = routes[j].path

HasBit(f, w) == ((f % 256) \div w) % 2 = 1

\* columns whose unsigned field is true after the step and was not before
TurnedUnsigned ==
    { i \in 1..Len(columns') :
        /\ columns'[i].unsigned
        /\ (i > Len(columns) \/ ~columns[i].unsigned) }

UpperAlphabet == "ABCDEFGHIJKLMNOPQRSTUVWXYZ"

LowerAlphabet == "abcdefghijklmnopqrstuvwxyz"

LowerChar(c) ==
    IF \E k \in 1..26 : CharAt(UpperAlphabet, k) = c
    THEN CharAt(LowerAlphabet, CHOOSE k \in 1..26 : CharAt(UpperAlphabet, k) = c)
    ELSE c

RECURSIVE ToLower(_)
ToLower(s) == IF s = "" THEN "" ELSE LowerChar(CharAt(s, 1)) \o ToLower(SubSeq(s, 2, Len(s)))

C22_CaseSensitiveNames ==
    [][ /\ (BuildTableFinish /\ Len(columns) > 0) =>
              \A S \in SystemNames :
                  (IndexesOf(columns, ToLower(S)) # {} /\ IndexesOf(columns, S) = {}) =>
                      /\ err' = NilError
                      /\ SubSeq(columns', 1, Len(columns)) = columns
                      /\ Cardinality(IndexesOf(columns', S)) = 1
                      /\ \A i \in IndexesOf(columns', S) : columns'[i] = Injected(S)
                      /\ ClausesNamed(sql', S) = 1
                      /\ ClausesNamed(sql', ToLower(S)) = 1
        /\ \A n \in CaseMutatorNames :
              (CallNullable(n) \/ CallUnique(n)) =>
                  /\ Len(columns') = Len(columns)
                  /\ \A i \in 1..Len(columns) :
                        columns[i].name # n => columns'[i] = columns[i]
                  /\ IndexesOf(columns, n) = {} => NewLogs = << NotFoundWarning(n) >>
      ]_vars

\* the callback made a column id and tried to change ID, which was not
\* there; the build injected ID beside id
C22_Witness ==
    /\ pc = "returned"
    /\ err = NilError
    /\ Contains(sql, "(id INTEGER NOT NULL ,ID CHAR(40) NOT NULL PRIMARY UNIQUE KEY,")
    /\ CountOf(logs, NotFoundWarning("ID")) = 1

\* ------------------------------------------------------------------------
\* C23: only the table name is validated: with a valid table name a
\* callback creating a column of any name, or an Enum or Set column of any
\* values, gets a successful build with the name and the values in the SQL
\* as they were given.
\* ------------------------------------------------------------------------
C23_OnlyTableNameValidated ==
    [][ /\ \A n \in VerbatimColNames :
              /\ (CallInteger(n) /\ ~hasColumn(Tb, n)) =>
                    AppendsNotNullColumn(n, "INTEGER")
              /\ \A vs \in VerbatimValueLists :
                    /\ (CallEnum(n, vs) /\ ~hasColumn(Tb, n)) =>
                          AppendsNotNullColumn(n, "ENUM(" \o QuotedList(vs) \o ")")
                    /\ (CallSet(n, vs) /\ ~hasColumn(Tb, n)) =>
                          AppendsNotNullColumn(n, "SET(" \o QuotedList(vs) \o ")")
        /\ (BuildTableFinish /\ steps > 0 /\ IdentifierName(tableName)) =>
              /\ pc' = "returned"
              /\ err' = NilError
              /\ HasPrefix(AfterTableName(sql'),
                     "(" \o columns[1].name \o " " \o columns[1].dataType \o " NOT NULL ,")
              /\ \A i \in 1..Len(columns) :
                    Contains(AfterTableName(sql'),
                        columns[i].name \o " " \o columns[i].dataType \o " NOT NULL ,")
      ]_vars

\* a build with a column of the name x;-- and a value with a quote in it
C23_Witness ==
    /\ pc = "returned"
    /\ err = NilError
    /\ HasPrefix(AfterTableName(sql), "(x;-- SET('b'c') NOT NULL ,ID CHAR(40)")

\* ------------------------------------------------------------------------
\* C24: a column once created keeps its name, its dataType, its primary
\* flag and its place: every step of the build leaves the columns there are
\* where they are and at most appends columns behind them.
\* ------------------------------------------------------------------------
C24_CreatedColumnsFixed ==
    [][ (pc = "callback") =>
            /\ Len(columns') >= Len(columns)
            /\ \A i \in 1..Len(columns) :
                  /\ columns'[i].name = columns[i].name
                  /\ columns'[i].dataType = columns[i].dataType
                  /\ columns'[i].primary = columns[i].primary
      ]_vars

\* col1, created without flags, was made unique and unsigned and is still
\* the first column, a TEXT column and no primary key, in the finished table
C24_Witness ==
    /\ pc = "returned"
    /\ Len(columns) = 5
    /\ columns[1].name = "col1"
    /\ columns[1].dataType = "TEXT"
    /\ columns[1].unique /\ columns[1].unsigned
    /\ ~columns[1].primary /\ ~columns[1].notNull

\* ------------------------------------------------------------------------
\* C25: autoIncrement, unique and unsigned of a column never go from true
\* to false during the build; notNull goes from true to false by Nullable
\* on the name of the column and by nothing else.
\* ------------------------------------------------------------------------
C25_FlagsMonotonic ==
    [][ \A i \in 1..Len(columns) :
            /\ i <= Len(columns')
            /\ columns[i].autoIncrement => columns'[i].autoIncrement
            /\ columns[i].unique => columns'[i].unique
            /\ columns[i].unsigned => columns'[i].unsigned
            /\ (columns[i].notNull /\ ~columns'[i].notNull) =>
                  CallNullable(columns[i].name)
      ]_vars

\* col1, created NOT NULL by Integer, was made auto-increment and then
\* nullable: notNull is false and autoIncrement still true
C25_Witness ==
    /\ pc = "callback"
    /\ steps = 3
    /\ Len(columns) = 1
    /\ columns[1].name = "col1"
    /\ columns[1].dataType = "INTEGER"
    /\ columns[1].autoIncrement
    /\ ~columns[1].notNull

\* ------------------------------------------------------------------------
\* C26: BuildTable reaches toSQL only with at least one column in the
\* table, so the cut of the last byte never fails: for every table name and
\* every callback the invocation returns, with a result or with an error.
\* ------------------------------------------------------------------------
C26_RendererNeverFails ==
    [][ /\ pc' # "panicked"
        /\ BuildTableFinish =>
              /\ pc' = "returned"
              /\ (Len(columns) = 0) => (sql' = "" /\ err' # NilError /\ columns' = <<>>)
              /\ (Len(columns) > 0) =>
                    /\ Len(columns') >= Len(columns)
                    /\ ColBuilder(columns') # ""
                    /\ sql' # SlicePanic
                    /\ err' = NilError
      ]_vars

\* a build whose callback created the identifier column only and called a
\* mutator on a missing column: the renderer ran on the four system columns
C26_Witness ==
    /\ pc = "returned"
    /\ err = NilError
    /\ Len(columns) = 4
    /\ Len(logs) = 2
    /\ sql # ""

\* ------------------------------------------------------------------------
\* C27: BuildTable returns either a non-empty SQL text with a nil error or
\* the empty text with an error, which is the error of the invalid name or
\* of the empty builder; never a text with an error, and a build whose
\* callback left a column succeeds whatever was logged.
\* ------------------------------------------------------------------------
C27_ResultsExclusive ==
    (pc = "returned") =>
        /\ \/ (sql # "" /\ err = NilError)
           \/ (sql = "" /\ err # NilError)
        /\ (err # NilError) =>
              \/ (calls = 0 /\ columns = <<>>
                    /\ ErrorText(err) = "table name " \o tableName \o " is invalid")
              \/ (calls = 1 /\ columns = <<>>
                    /\ ErrorText(err) = "builder method is empty")
        /\ (Len(columns) > 0) => (err = NilError /\ sql # "")

\* a build that logged a warning and returned its statement with a nil error
C27_Witness ==
    /\ pc = "returned"
    /\ err = NilError
    /\ sql # ""
    /\ Len(columns) = 5
    /\ Len(logs) = 1

\* ------------------------------------------------------------------------
\* C28: on a route with :id, a text at :id that is no integer gets the
\* envelope with Status false and the parse error as Error, and no
\* controller method is called; in every response of rootResponse and
\* parameterResponse Status is true exactly when the controller method
\* returned a nil error, Data is then its result, and the Content-Type is
\* application/json.
\* ------------------------------------------------------------------------
C28_ResponseEnvelope ==
    [][ \A m \in Methods, rp \in RequestPaths :
          (ServeHTTP(m, rp) /\ served'.outcome = "response") =>
              LET r == routes[served'.route]
              IN  /\ served'.contentType = "application/json"
                  /\ served'.body.Status =
                        (served'.returned.called /\ served'.returned.err = NilError)
                  /\ served'.body.Status =>
                        (served'.body.Data = served'.returned.res
                            /\ served'.body.Error = "")
                  /\ (r.handler.wrap = "root") => served'.returned.called
                  /\ (r.handler.wrap = "param") =>
                        IF IsInteger(IdText(r, rp))
                        THEN served'.returned.called
                        ELSE /\ ~served'.returned.called
                             /\ served'.target = ""
                             /\ ~served'.body.Status
                             /\ served'.body.Data = NilData
                             /\ served'.body.Error =
                                  "strconv.Atoi: parsing \"" \o IdText(r, rp)
                                      \o "\": invalid syntax"
      ]_vars

\* the request for /test/abc on a route of the resource was answered with
\* the parse error
C28_Witness ==
    /\ served.outcome = "response"
    /\ served.route > 0
    /\ routes[served.route].path = "/test/:id"
    /\ ~served.returned.called
    /\ served.body = [ Status |-> FALSE, Data |-> NilData,
                       Error |-> "strconv.Atoi: parsing \"abc\": invalid syntax" ]

\* ------------------------------------------------------------------------
\* the ORM layer: InitDatabase and GetDB
\* ------------------------------------------------------------------------

\* gorm.Open: the handle of the call, with an error when the connection
\* does not open
gormOpen(driver, opens, call) ==
    [ db |-> [ driver |-> driver, call |-> call ],
      err |-> IF opens THEN NilError ELSE NewError("failed to initialize database") ]

openMysqlConnection(config, opens, call) == gormOpen("mysql", opens, call)

openSqliteConnection(config, opens, call) == gormOpen("sqlite", opens, call)

openConnection(config, opens, call) ==
    CASE config.Driver = "mysql" -> openMysqlConnection(config, opens, call)
      [] config.Driver = "sqlite" -> openSqliteConnection(config, opens, call)
      [] OTHER -> [ db |-> NilDB,
                    err |-> NewError("unsupported database driver " \o config.Driver) ]

\* one call of db.AutoMigrate(model)
AutoMigrate(d, model, failing) ==
    [ db |-> d, model |-> model, ok |-> model \notin failing ]

RECURSIVE MigrateEveryModel(_, _, _)
\* the loop over config.Models going on after a failed migration
MigrateEveryModel(d, models, failing) ==
    IF models = <<>> THEN <<>>
    ELSE << AutoMigrate(d, Head(models), failing) >>
            \o MigrateEveryModel(d, Tail(models), failing)

RECURSIVE AutoMigrateModels(_, _, _)
\* the loop over config.Models, left at the first failed migration
AutoMigrateModels(d, models, failing) ==
    IF models = <<>> THEN <<>>
    ELSE LET m == AutoMigrate(d, Head(models), failing)
         IN  IF ~m.ok THEN << m >>
             ELSE << m >> \o AutoMigrateModels(d, Tail(models), failing)

\* InitDatabase keeping the connection it has when the new one fails
InitDatabaseKeepsDB(config, opens, failing) ==
    /\ inits < MaxInits
    /\ inits' = inits + 1
    /\ LET r == openConnection(config, opens, inits + 1)
       IN  /\ db' = IF r.err = NilError THEN r.db ELSE db
           /\ initErr' = r.err
           /\ migrations' = IF r.err = NilError
                            THEN migrations \o AutoMigrateModels(r.db, config.Models, failing)
                            ELSE migrations
    /\ UNCHANGED <<got, multiVars, serverVars>>
    /\ UNCHANGED <<pc, tableName, columns, logs, calls, steps, sql, err>>

\* InitDatabase(config), with whether the connection opens and the models
\* whose migration fails
InitDatabase(config, opens, failing) ==
    /\ inits < MaxInits
    /\ inits' = inits + 1
    /\ LET r == openConnection(config, opens, inits + 1)
       IN  /\ db' = r.db
           /\ initErr' = r.err
           /\ migrations' = IF r.err = NilError
                            THEN migrations \o AutoMigrateModels(r.db, config.Models, failing)
                            ELSE migrations
    /\ UNCHANGED <<got, multiVars, serverVars>>
    /\ UNCHANGED <<pc, tableName, columns, logs, calls, steps, sql, err>>

GetDB ==
    /\ got' = IF db = NilDB
              THEN [ outcome |-> "panic", db |-> NilDB,
                     message |-> "DB not initialised", at |-> inits ]
              ELSE [ outcome |-> "returned", db |-> db, message |-> "", at |-> inits ]
    /\ UNCHANGED <<db, inits, initErr, migrations, multiVars, serverVars>>
    /\ UNCHANGED <<pc, tableName, columns, logs, calls, steps, sql, err>>

\* the configurations handed to InitDatabase
Configs == [ Driver : Drivers, Models : ModelLists ]

NextOrm ==
    \/ \E c \in Configs, o \in BOOLEAN, f \in FailingModels : InitDatabase(c, o, f)
    \/ GetDB

InitOrm == Init /\ tableName = "test"

SpecOrm == InitOrm /\ [][NextOrm]_vars

\* ------------------------------------------------------------------------
\* C29: when the connection opens, InitDatabase migrates config.Models in
\* order up to the first model whose migration fails and no model after it,
\* and returns nil whether or not a migration failed.
\* ------------------------------------------------------------------------

\* the migrations of the step
NewMigrations == SubSeq(migrations', Len(migrations) + 1, Len(migrations'))

\* the place of the first model of the list whose migration fails, or one
\* past the end of the list
FirstFailure(models, failing) ==
    IF \E k \in 1..Len(models) : models[k] \in failing
    THEN CHOOSE k \in 1..Len(models) :
            /\ models[k] \in failing
            /\ \A j \in 1..(k - 1) : models[j] \notin failing
    ELSE Len(models) + 1

C29_MigrationStopsSilently ==
    [][ \A c \in Configs, o \in BOOLEAN, f \in FailingModels :
          InitDatabase(c, o, f) =>
              IF o /\ c.Driver \in { "mysql", "sqlite" }
              THEN LET k == FirstFailure(c.Models, f)
                       n == IF k > Len(c.Models) THEN Len(c.Models) ELSE k
                   IN  /\ initErr' = NilError
                       /\ Len(NewMigrations) = n
                       /\ \A i \in 1..n :
                             /\ NewMigrations[i].model = c.Models[i]
                             /\ NewMigrations[i].db = db'
                             /\ NewMigrations[i].ok = (i < k)
              ELSE /\ initErr' # NilError
                   /\ NewMigrations = <<>>
      ]_vars

\* InitDatabase returned nil after the migration of A succeeded and that of
\* B failed; C was not migrated
C29_Witness ==
    /\ inits = 1
    /\ initErr = NilError
    /\ Len(migrations) = 2
    /\ migrations[1].model = "A" /\ migrations[1].ok
    /\ migrations[2].model = "B" /\ ~migrations[2].ok

\* ------------------------------------------------------------------------
\* C30: GetDB panics with DB not initialised when InitDatabase has not been
\* called or when its last call named an unsupported driver, also after an
\* earlier call that succeeded, and returns the connection stored by the
\* last call otherwise; InitDatabase with a driver other than mysql and
\* sqlite returns the error unsupported database driver.
\* ------------------------------------------------------------------------

\* the last call of InitDatabase failed on the name of the driver
LastDriverUnsupported ==
    /\ initErr # NilError
    /\ HasPrefix(ErrorText(initErr), "unsupported database driver")

C30_GetDBFollowsLastInit ==
    [][ /\ GetDB =>
              IF inits = 0 \/ LastDriverUnsupported
              THEN got'.outcome = "panic" /\ got'.message = "DB not initialised"
              ELSE /\ got'.outcome = "returned"
                   /\ got'.db = db
                   /\ got'.db.call = inits
                   /\ got'.db.driver \in { "mysql", "sqlite" }
        /\ \A c \in Configs, o \in BOOLEAN, f \in FailingModels :
              (InitDatabase(c, o, f) /\ c.Driver \notin { "mysql", "sqlite" }) =>
                  /\ initErr' = NewError("unsupported database driver " \o c.Driver)
                  /\ db' = NilDB
      ]_vars

\* GetDB panicked after a call of InitDatabase that migrated models and a
\* second call with an unsupported driver
C30_Witness ==
    /\ inits = 2
    /\ Len(migrations) > 0
    /\ LastDriverUnsupported
    /\ got.outcome = "panic"
    /\ got.at = 2

====
